---------------------------- MODULE Spec2Model ----------------------------
(***************************************************************************)
(* A model of the flashcard pipeline of mcp-server-learning:               *)
(*                                                                         *)
(*   - AnkiCardManager.upload_cards_to_anki and the field mapper it calls  *)
(*     (src/mcp_server_learning/flashcard_server.py), specification Spec;  *)
(*   - AnkiConnector.add_note / add_notes / update_note of                 *)
(*     fastmcp_flashcard_server.py, specification ConnSpec;                *)
(*   - FlashcardGenerator.parse_text_to_cards of                           *)
(*     fastmcp_flashcard_server.py, specification ParseSpec.               *)
(*                                                                         *)
(* Texts are sequences of one-character strings (the parser) or sequences  *)
(* of lines (the field mapper).  Python's None in a list of optional ids   *)
(* is the empty sequence, an id n is <<n>>.                                *)
(***************************************************************************)
EXTENDS Integers, Sequences, FiniteSets, TLC

VARIABLES
    \* ---- upload_cards_to_anki (flashcard_server.py) ----
    cards_data,         \* argument: the list of card dictionaries
    check_duplicates,   \* argument
    duplicate_policy,   \* argument
    batch_size,         \* argument
    models,             \* the note types the remote collection holds
    queries_up,         \* which model queries the remote answers in this run
    pc,                 \* position of the call in the function body
    i,                  \* loop variable of "for i in range(0, len, batch_size)"
    j,                  \* loop variable of "for j, card_data in enumerate(batch)"
    anki_notes,         \* local: the notes prepared for the current chunk
    conversion_errors,  \* local: the mapping errors of the current chunk
    duplicates_info,    \* local: skipped / added_anyway of the current chunk
    total_results,      \* local: the tallies
    result,             \* the returned dictionary
    raised,             \* TRUE when an exception left the function
    calls,              \* the remote calls issued so far, in order
    \* ---- AnkiConnector (fastmcp_flashcard_server.py) ----
    conn_notes,         \* remote collection: note id -> field text
    conn_flags,         \* remote collection: card id -> flag value
    conn_op,            \* the connector operation that ran last
    conn_calls,         \* the requests that operation posted, in order
    conn_result,        \* what the operation returned, or what it raised
    \* ---- parse_text_to_cards (fastmcp_flashcard_server.py) ----
    text,               \* argument: the text, a sequence of characters
    card_type,          \* argument
    qa_pairs,           \* how the text was composed (empty for free text)
    paragraphs,         \* the paragraphs a text was written from (or empty)
    ppc,                \* "ready" before the call, then "done" or "raised"
    cards,              \* the returned list of cards
    \* ---- single functions of the two servers, called on their own ----
    fn,                 \* the function that was called, "none" before the call
    fn_in,              \* its argument
    fn_out              \* what it returned, or the exception it raised

uploadArgs == <<cards_data, check_duplicates, duplicate_policy, batch_size,
                models, queries_up>>
uploadVars == <<uploadArgs, pc, i, j, anki_notes, conversion_errors,
                duplicates_info, total_results, result, raised, calls>>
connVars == <<conn_notes, conn_flags, conn_op, conn_calls, conn_result>>
parseVars == <<text, card_type, qa_pairs, paragraphs, ppc, cards>>
fnVars == <<fn, fn_in, fn_out>>
vars == <<uploadVars, connVars, parseVars, fnVars>>

----------------------------------------------------------------------------
(* Bounds of the model.                                                    *)

MaxCards == 3
MaxBatch == 2

----------------------------------------------------------------------------
(* General helpers.                                                        *)

SeqsUpTo(S, n) == UNION {[1..k -> S] : k \in 0..n}

RECURSIVE SumSeq(_)
SumSeq(s) == IF s = <<>> THEN 0 ELSE Head(s) + SumSeq(Tail(s))

RECURSIVE Concat(_)
Concat(ss) == IF ss = <<>> THEN <<>> ELSE Head(ss) \o Concat(Tail(ss))

CountFalse(bs) == Cardinality({k \in 1..Len(bs) : ~bs[k]})

Range(s) == {s[k] : k \in 1..Len(s)}

\* Optional[int]: None is <<>>, an id n is <<n>>.
None == <<>>
Some(n) == <<n>>

----------------------------------------------------------------------------
(* The remote collection as the mapper sees it.                            *)

\* modelFieldNames of the note types a collection may hold.
FieldNamesOf(m) ==
    CASE m = "Basic" -> <<"Front", "Back">>
      [] m = "Cloze" -> <<"Text", "Back Extra">>
      [] OTHER -> <<>>

ModelSets == {{"Basic", "Cloze"}, {"Basic"}}

\* The exception classes a remote call raises (AnkiConnector._make_request).
RemoteErrors == {"AnkiConnectionError", "AnkiPermissionError",
                 "AnkiAPIError", "AnkiDuplicateError"}

\* The id the remote gives the note made from input card n (0-based).
NoteId(n) == 100 + n

----------------------------------------------------------------------------
(* Card dictionaries.  A content is a sequence of lines.                   *)

\* A key a caller left out is a field the record does not have.
CardPool == {
    [card_type |-> "front-back", content |-> <<"F", "B">>],
    [card_type |-> "cloze", model_name |-> "Missing", content |-> <<"T">>],
    [card_type |-> "front-back"] }

Has(d, key) == key \in DOMAIN d

----------------------------------------------------------------------------
(* The field mapper: AnkiCardManager.convert_to_anki_fields and the        *)
(* parsers it calls.                                                       *)

get_default_model_for_card_type(ct) ==
    CASE ct = "front-back" -> "Basic"
      [] ct = "cloze" -> "Cloze"
      [] ct = "diagram" -> "Basic"
      [] OTHER -> "Basic"

\* str.strip() on a sequence of lines: the blank lines at both ends go.
RECURSIVE LStripLines(_)
LStripLines(ls) ==
    IF ls # <<>> /\ Head(ls) = "" THEN LStripLines(Tail(ls)) ELSE ls

RECURSIVE RStripLines(_)
RStripLines(ls) ==
    IF ls # <<>> /\ ls[Len(ls)] = ""
    THEN RStripLines(SubSeq(ls, 1, Len(ls) - 1))
    ELSE ls

StripLines(ls) == RStripLines(LStripLines(ls))

IsBegin(line, env) ==
    \/ env = "flashcard" /\ line \in {"\\begin{flashcard}{F}"}
    \/ env = "clozecard" /\ line \in {"\\begin{clozecard}"}

IsEnd(line, env) ==
    \/ env = "flashcard" /\ line = "\\end{flashcard}"
    \/ env = "clozecard" /\ line = "\\end{clozecard}"

\* re.sub(r"\\begin\{env\}.*?\n", "", content): a line that opens the
\* environment goes together with its newline, so the last line stays.
RECURSIVE RemoveBegin(_, _)
RemoveBegin(ls, env) ==
    IF Len(ls) <= 1 THEN ls
    ELSE IF IsBegin(Head(ls), env) THEN RemoveBegin(Tail(ls), env)
    ELSE <<Head(ls)>> \o RemoveBegin(Tail(ls), env)

\* re.sub(r"\\end\{env\}.*", "", content): the rest of the line goes, the
\* newline stays.
BlankEnd(ls, env) ==
    [k \in 1..Len(ls) |-> IF IsEnd(ls[k], env) THEN "" ELSE ls[k]]

RemoveEnvironment(ls, env) == BlankEnd(RemoveBegin(ls, env), env)

\* A parser's outcome: the fields, or the exception it raised.
Fields(f) == [ok |-> TRUE, fields |-> f]
Raise(e) == [ok |-> FALSE, error |-> e]

_parse_front_back_card(content, field_names) ==
    LET s == StripLines(RemoveEnvironment(content, "flashcard"))
    IN  IF Len(s) >= 2
        THEN IF Len(field_names) < 2
             THEN Raise("list index out of range")
             ELSE Fields(
                 [f \in {field_names[1], field_names[2]} |->
                     IF f = field_names[2]
                     THEN StripLines(Tail(s))
                     ELSE <<s[1]>>])
        ELSE IF Len(field_names) < 1
             THEN Raise("list index out of range")
             ELSE IF Len(field_names) > 1
             THEN Fields(
                 [f \in {field_names[1], field_names[2]} |->
                     IF f = field_names[2] THEN <<>> ELSE s])
             ELSE Fields([f \in {field_names[1]} |-> s])

\* The contents of CardPool hold no "\\cloze{" text, so the renumbering
\* loop of _parse_cloze_card finds no match and leaves the content as is.
_parse_cloze_card(content, field_names) ==
    LET s == StripLines(RemoveEnvironment(content, "clozecard"))
    IN  IF Len(field_names) < 1
        THEN Raise("list index out of range")
        ELSE Fields([f \in {field_names[1]} |-> s])

\* The remote's answers to the queries of one mapping: TRUE is an answer,
\* FALSE an exception.
MapReplies == [names1 : BOOLEAN, names2 : BOOLEAN,
               fields1 : BOOLEAN, fields2 : BOOLEAN]

\* During one upload the remote answers the modelNames queries or fails
\* them all, and likewise the modelFieldNames queries.
QueryHealth == {[names |-> TRUE, fields |-> TRUE],
                [names |-> FALSE, fields |-> TRUE],
                [names |-> TRUE, fields |-> FALSE]}

RepliesOf(h) == [names1 |-> h.names, names2 |-> h.names,
                 fields1 |-> h.fields, fields2 |-> h.fields]

Query(action, ok) == [action |-> action, ok |-> ok]

\* validate_model_exists: an exception of the query counts as "no".
validate_model_exists(model_name, rm, ok) == ok /\ model_name \in rm

\* convert_to_anki_fields(content, card_type, model_name) against a
\* collection holding the note types rm and answering as r says.  The
\* outcome also lists the queries issued, in order.
convert_to_anki_fields(content, ct, model_name, rm, r) ==
    LET exists1 == validate_model_exists(model_name, rm, r.names1)
        fallback_model == get_default_model_for_card_type(ct)
        asks2 == ~exists1 /\ fallback_model # model_name
        exists2 == asks2 /\ validate_model_exists(fallback_model, rm, r.names2)
        resolved == IF exists1 THEN model_name ELSE fallback_model
        q1 == <<Query("modelNames", r.names1)>>
              \o (IF asks2 THEN <<Query("modelNames", r.names2)>> ELSE <<>>)
        field_names ==
            IF r.fields1 THEN FieldNamesOf(resolved)
            ELSE IF ct # "cloze" THEN <<"Front", "Back">> ELSE <<"Text">>
        parsed ==
            CASE ct = "front-back" -> _parse_front_back_card(content, field_names)
              [] ct = "cloze" -> _parse_cloze_card(content, field_names)
              [] OTHER ->
                    IF Len(field_names) < 1
                    THEN Raise("list index out of range")
                    ELSE Fields([f \in {field_names[1]} |-> content])
        q2 == q1 \o <<Query("modelFieldNames", r.fields1)>>
        \* validate_fields_for_model: the missing fields, none when the
        \* field query fails.
        missing_fields ==
            IF r.fields2
            THEN Range(FieldNamesOf(resolved)) \ DOMAIN parsed.fields
            ELSE {}
        q3 == q2 \o <<Query("modelFieldNames", r.fields2)>>
    IN  IF ~(exists1 \/ exists2)
        THEN [ok |-> FALSE, queries |-> q1,
              error |-> "Model not found and no valid fallback available"]
        ELSE IF ~parsed.ok
        THEN [ok |-> FALSE, queries |-> q2, error |-> parsed.error]
        ELSE [ok |-> TRUE, queries |-> q3, resolved |-> resolved,
              fields |-> [f \in DOMAIN parsed.fields \cup missing_fields |->
                            IF f \in DOMAIN parsed.fields
                            THEN parsed.fields[f] ELSE <<>>]]

----------------------------------------------------------------------------
(* upload_cards_to_anki.                                                   *)

Call(action, batch, ok, sent, reply) ==
    [action |-> action, batch |-> batch, ok |-> ok, sent |-> sent,
     reply |-> reply]

\* batch_num of the chunk that starts at input index n.
BatchNum(n) == (n \div batch_size) + 1

\* Faulty variant: cards_data[i:], a chunk that runs to the end of the list.
BatchToTheEnd == SubSeq(cards_data, i + 1, Len(cards_data))

\* cards_data[i : i + batch_size]
Batch == SubSeq(cards_data, i + 1,
                IF i + batch_size < Len(cards_data)
                THEN i + batch_size ELSE Len(cards_data))

NoResult == [returned |-> FALSE]

FreshTotals == [successful_uploads |-> 0, failed_uploads |-> 0,
                skipped_duplicates |-> 0, added_duplicates |-> 0,
                processing_errors |-> <<>>, note_ids |-> <<>>,
                batches_processed |-> 0]

NoDuplicatesInfo == [skipped |-> 0, added_anyway |-> 0]

ErrorResult(total, message) ==
    [success |-> FALSE, total_cards |-> total, error |-> message]

\* Faulty variant: without the closing "except Exception" clause, so that an
\* exception that is not one of the connector's leaves the function.
OuterHandlerAnkiOnly(exc, total) ==
    IF exc = "AnkiDuplicateError"
    THEN [raised |-> FALSE,
          value |-> ErrorResult(total, <<"Duplicate detection error: ", exc>>)]
    ELSE IF exc \in {"AnkiConnectionError", "AnkiPermissionError", "AnkiAPIError"}
    THEN [raised |-> FALSE, value |-> ErrorResult(total, <<exc>>)]
    ELSE [raised |-> TRUE, value |-> NoResult]

\* Faulty variant: the error result also carries the (empty) tallies.
OuterHandlerWithTallies(exc, total) ==
    [raised |-> FALSE,
     value |-> [success |-> FALSE, total_cards |-> total, error |-> <<exc>>,
                successful_uploads |-> 0, failed_uploads |-> 0]]

\* The except clauses that close the function body: what the call returns
\* for an exception of class exc that reaches them.
OuterHandler(exc, total) ==
    IF exc = "AnkiDuplicateError"
    THEN [raised |-> FALSE,
          value |-> ErrorResult(total, <<"Duplicate detection error: ", exc>>)]
    ELSE IF exc \in {"AnkiConnectionError", "AnkiPermissionError", "AnkiAPIError"}
    THEN [raised |-> FALSE, value |-> ErrorResult(total, <<exc>>)]
    ELSE [raised |-> FALSE,
          value |-> ErrorResult(total, <<"Unexpected error: ", exc>>)]

\* The function ends with exception exc in its outer try block.
Abort(exc) ==
    LET h == OuterHandler(exc, Len(cards_data))
    IN  /\ pc' = "done"
        /\ raised' = h.raised
        /\ result' = IF h.raised THEN NoResult ELSE h.value

\* Faulty variant: the body starts with create_deck, the permission is
\* never asked for.
EntryWithoutPermission == "create_deck"

\* The first statement of the body: self.anki.check_permission().
Entry == "check_permission"

UploadInit ==
    /\ cards_data \in SeqsUpTo(CardPool, MaxCards)
    /\ check_duplicates \in BOOLEAN
    /\ duplicate_policy \in {"skip", "add_anyway", "update"}
    \* the policy is read only when duplicates are checked
    /\ ~check_duplicates => duplicate_policy = "skip"
    /\ batch_size \in -1..MaxBatch
    /\ models \in ModelSets
    /\ queries_up \in QueryHealth
    \* a collection without the Cloze note type is one that answers
    /\ "Cloze" \notin models => queries_up = [names |-> TRUE, fields |-> TRUE]
    /\ pc = Entry
    /\ i = 0
    /\ j = 0
    /\ anki_notes = <<>>
    /\ conversion_errors = <<>>
    /\ duplicates_info = NoDuplicatesInfo
    /\ total_results = FreshTotals
    /\ result = NoResult
    /\ raised = FALSE
    /\ calls = <<>>

\* permission_info = self.anki.check_permission()
CheckPermission ==
    /\ pc = "check_permission"
    /\ \/ /\ calls' = Append(calls, Call("requestPermission", 0, TRUE, <<>>, <<>>))
          /\ pc' = "create_deck"
          /\ UNCHANGED <<result, raised>>
       \/ /\ calls' = Append(calls, Call("requestPermission", 0, FALSE, <<>>, <<>>))
          /\ \E exc \in RemoteErrors : Abort(exc)
    /\ UNCHANGED <<uploadArgs, connVars, parseVars, fnVars>>
    /\ UNCHANGED <<i, j, anki_notes, conversion_errors,
                   duplicates_info, total_results>>

\* self.anki.create_deck(deck_name), the tallies, and the range() of the
\* for statement, which raises ValueError for a step of 0.
CreateDeck ==
    /\ pc = "create_deck"
    /\ \/ /\ calls' = Append(calls, Call("createDeck", 0, TRUE, <<>>, <<>>))
          /\ IF batch_size = 0
             THEN Abort("ValueError")
             ELSE /\ pc' = "batch"
                  /\ UNCHANGED <<result, raised>>
       \/ /\ calls' = Append(calls, Call("createDeck", 0, FALSE, <<>>, <<>>))
          /\ \E exc \in RemoteErrors : Abort(exc)
    /\ i' = 0
    /\ total_results' = FreshTotals
    /\ UNCHANGED <<uploadArgs, connVars, parseVars, fnVars>>
    /\ UNCHANGED <<j, anki_notes, conversion_errors, duplicates_info>>

\* range(0, len(cards_data), batch_size) yields i.
InRange == batch_size > 0 /\ i < Len(cards_data)

\* The head of the for statement: the next chunk.
BeginBatch ==
    /\ pc = "batch"
    /\ InRange
    /\ pc' = "convert"
    /\ j' = 0
    /\ anki_notes' = <<>>
    /\ conversion_errors' = <<>>
    /\ UNCHANGED <<uploadArgs, connVars, parseVars, fnVars>>
    /\ UNCHANGED <<i, duplicates_info, total_results, result, raised,
                   calls>>

\* Faulty variant: a mapping failure ends the inner loop.
AfterCardBreaks(mapped) == IF mapped THEN j + 1 ELSE Len(Batch)

\* The try statement inside the inner loop catches what the mapping of a
\* card raises, so the loop goes on to the next card either way.
AfterCard(mapped) == j + 1

\* One turn of "for j, card_data in enumerate(batch)".
ConvertCard ==
    /\ pc = "convert"
    /\ j < Len(Batch)
    /\ LET card_data == Batch[j + 1]
           ct == IF Has(card_data, "card_type")
                 THEN card_data.card_type ELSE "front-back"
           model_name == IF Has(card_data, "model_name")
                         THEN card_data.model_name
                         ELSE get_default_model_for_card_type(ct)
       IN  IF ~Has(card_data, "content")
           THEN \* card_data["content"] raises KeyError before any query
                /\ conversion_errors' = Append(conversion_errors,
                       [batch |-> BatchNum(i), card_index |-> i + j,
                        error |-> "'content'"])
                /\ j' = AfterCard(FALSE)
                /\ UNCHANGED <<anki_notes, calls>>
           ELSE LET m == convert_to_anki_fields(card_data.content, ct,
                                                model_name, models,
                                                RepliesOf(queries_up))
                    qs == [k \in 1..Len(m.queries) |->
                             Call(m.queries[k].action, BatchNum(i),
                                  m.queries[k].ok, <<>>, <<>>)]
                IN  /\ calls' = calls \o qs
                    /\ j' = AfterCard(m.ok)
                    /\ IF m.ok
                       THEN /\ anki_notes' = Append(anki_notes,
                                  [index |-> i + j, model_name |-> model_name,
                                   fields |-> m.fields])
                            /\ UNCHANGED conversion_errors
                       ELSE /\ conversion_errors' = Append(conversion_errors,
                                  [batch |-> BatchNum(i), card_index |-> i + j,
                                   error |-> m.error])
                            /\ UNCHANGED anki_notes
    /\ UNCHANGED <<uploadArgs, connVars, parseVars, fnVars>>
    /\ UNCHANGED <<pc, i, duplicates_info, total_results, result,
                   raised>>

\* After the inner loop: the conversion errors join the tallies; a chunk
\* without notes is left with "continue".
EndConvert ==
    /\ pc = "convert"
    /\ j = Len(Batch)
    /\ total_results' =
          [total_results EXCEPT
              !.processing_errors = @ \o conversion_errors,
              !.failed_uploads = @ + Len(conversion_errors)]
    /\ duplicates_info' = NoDuplicatesInfo
    /\ IF anki_notes = <<>>
       THEN pc' = "batch" /\ i' = i + batch_size
       ELSE pc' = (IF check_duplicates THEN "duplicates" ELSE "upload")
            /\ UNCHANGED i
    /\ UNCHANGED <<uploadArgs, connVars, parseVars, fnVars>>
    /\ UNCHANGED <<j, anki_notes, conversion_errors, result, raised,
                   calls>>

Indices(notes) == [k \in 1..Len(notes) |-> notes[k].index]

\* The notes of the chunk the remote says can be added.
RECURSIVE Filter(_, _)
Filter(notes, can_add) ==
    IF notes = <<>> THEN <<>>
    ELSE (IF Head(can_add) THEN <<Head(notes)>> ELSE <<>>)
         \o Filter(Tail(notes), Tail(can_add))

\* Faulty variant: a failed duplicate check leaves no trace.
DuplicateCheckFailedSilently(totals, batch_num) == totals

\* The except clause of the duplicate check: one error entry; the notes of
\* the chunk and the duplicate counts stay as they are.
DuplicateCheckFailed(totals, batch_num) ==
    [totals EXCEPT
        !.processing_errors = Append(@,
            [batch |-> batch_num, error |-> "Duplicate check failed"])]

\* self.anki.can_add_notes(anki_notes) and the duplicate policy.  The remote
\* answers with one boolean per note, or the call raises.
CheckDuplicates ==
    /\ pc = "duplicates"
    /\ \/ \E can_add \in [1..Len(anki_notes) -> BOOLEAN] :
            /\ calls' = Append(calls, Call("canAddNotes", BatchNum(i), TRUE,
                                           Indices(anki_notes), can_add))
            /\ CASE duplicate_policy = "skip" ->
                      /\ anki_notes' = Filter(anki_notes, can_add)
                      /\ duplicates_info' =
                            [duplicates_info EXCEPT !.skipped = CountFalse(can_add)]
                 [] duplicate_policy = "add_anyway" ->
                      /\ duplicates_info' =
                            [duplicates_info EXCEPT !.added_anyway = CountFalse(can_add)]
                      /\ UNCHANGED anki_notes
                 [] OTHER -> UNCHANGED <<anki_notes, duplicates_info>>
            /\ UNCHANGED total_results
       \/ /\ calls' = Append(calls, Call("canAddNotes", BatchNum(i), FALSE,
                                         Indices(anki_notes), <<>>))
          /\ total_results' = DuplicateCheckFailed(total_results, BatchNum(i))
          /\ UNCHANGED <<anki_notes, duplicates_info>>
    /\ pc' = "upload"
    /\ UNCHANGED <<uploadArgs, connVars, parseVars, fnVars>>
    /\ UNCHANGED <<i, j, conversion_errors, result, raised>>

\* note_ids of a reply: an id where the remote made the note, None elsewhere.
NoteIds(notes, made) ==
    [k \in 1..Len(notes) |->
        IF made[k] THEN Some(NoteId(notes[k].index)) ELSE None]

\* Faulty variant: the ids collected so far are lost.
UploadFailedDropsIds(totals, batch_num, notes) ==
    [totals EXCEPT
        !.processing_errors = Append(@,
            [batch |-> batch_num, error |-> "Upload failed"]),
        !.failed_uploads = @ + Len(notes),
        !.note_ids = <<>>]

\* The except clause of the upload: one error entry, every note of the
\* chunk counted as failed; the ids collected so far stay.
UploadFailed(totals, batch_num, notes) ==
    [totals EXCEPT
        !.processing_errors = Append(@,
            [batch |-> batch_num, error |-> "Upload failed"]),
        !.failed_uploads = @ + Len(notes)]

\* "if anki_notes:" with notes left: self.anki.add_notes(anki_notes).  The
\* remote answers with one optional id per note, or the call raises.
AddNotes ==
    /\ pc = "upload"
    /\ anki_notes # <<>>
    /\ \/ \E made \in [1..Len(anki_notes) -> BOOLEAN] :
            LET note_ids == NoteIds(anki_notes, made)
                batch_success ==
                    Cardinality({k \in 1..Len(note_ids) : note_ids[k] # None})
                batch_failed == Len(note_ids) - batch_success
            IN  /\ calls' = Append(calls, Call("addNotes", BatchNum(i), TRUE,
                                               Indices(anki_notes), made))
                /\ total_results' =
                      [total_results EXCEPT
                          !.successful_uploads = @ + batch_success,
                          !.failed_uploads = @ + batch_failed,
                          !.skipped_duplicates = @ + duplicates_info.skipped,
                          !.added_duplicates = @ + duplicates_info.added_anyway,
                          !.note_ids = @ \o note_ids,
                          !.batches_processed = @ + 1]
       \/ /\ calls' = Append(calls, Call("addNotes", BatchNum(i), FALSE,
                                         Indices(anki_notes), <<>>))
          /\ total_results' =
                [UploadFailed(total_results, BatchNum(i), anki_notes)
                    EXCEPT !.batches_processed = @ + 1]
    /\ pc' = "batch"
    /\ i' = i + batch_size
    /\ UNCHANGED <<uploadArgs, connVars, parseVars, fnVars>>
    /\ UNCHANGED <<j, anki_notes, conversion_errors, duplicates_info,
                   result, raised>>

\* "if anki_notes:" with every note filtered out: nothing is uploaded.
SkipUpload ==
    /\ pc = "upload"
    /\ anki_notes = <<>>
    /\ total_results' = [total_results EXCEPT !.batches_processed = @ + 1]
    /\ pc' = "batch"
    /\ i' = i + batch_size
    /\ UNCHANGED <<uploadArgs, connVars, parseVars, fnVars>>
    /\ UNCHANGED <<j, anki_notes, conversion_errors, duplicates_info,
                   result, raised, calls>>

\* The loop is exhausted: return the tallies.
ReturnTotals ==
    /\ pc = "batch"
    /\ ~InRange
    /\ pc' = "done"
    /\ result' =
          [success |-> total_results.successful_uploads > 0,
           deck_name |-> "Deck",
           total_cards |-> Len(cards_data),
           successful_uploads |-> total_results.successful_uploads,
           failed_uploads |-> total_results.failed_uploads,
           skipped_duplicates |-> total_results.skipped_duplicates,
           added_duplicates |-> total_results.added_duplicates,
           processing_errors |-> total_results.processing_errors,
           note_ids |-> total_results.note_ids,
           batches_processed |-> total_results.batches_processed]
    /\ UNCHANGED <<uploadArgs, connVars, parseVars, fnVars>>
    /\ UNCHANGED <<i, j, anki_notes, conversion_errors,
                   duplicates_info, total_results, raised, calls>>

\* The upload_to_anki branch of handle_call_tool: the text it answers with
\* for a result r of upload_cards_to_anki.  r["error"] of a result without
\* that key raises KeyError, which the branch's except clause reports.
upload_to_anki_response(r) ==
    IF r.success
    THEN <<"Successfully uploaded ", r.successful_uploads, " cards to Anki deck">>
         \o (IF r.failed_uploads > 0 THEN <<" (", r.failed_uploads, " failed)">>
             ELSE <<>>)
    ELSE IF Has(r, "error")
    THEN <<"Failed to upload cards to Anki: ", r.error>>
    ELSE <<"Error uploading to Anki: ", "'error'">>

UploadNext ==
    \/ CheckPermission
    \/ CreateDeck
    \/ BeginBatch
    \/ ConvertCard
    \/ EndConvert
    \/ CheckDuplicates
    \/ AddNotes
    \/ SkipUpload
    \/ ReturnTotals

----------------------------------------------------------------------------
(* AnkiConnector of fastmcp_flashcard_server.py against a remote           *)
(* collection.  Note n of the collection has the one card n.               *)

MaxRemoteNotes == 3

FieldTexts == {"Q1", "Q2"}

\* What becomes of a request: the endpoint answers with a result, answers
\* with an error text, refuses the connection, lets the request time out,
\* answers with an HTTP error status (raise_for_status raises), or answers
\* with a body that is not JSON (response.json raises).
Transports == {"result", "error", "refused", "timeout", "http_error", "bad_json"}

\* The texts of the exceptions raised by raise_for_status and response.json.
HTTPErrorText == <<"500 Server Error: Internal Server Error for url: ", "http://localhost:8765/">>

JSONErrorText == <<"Expecting value: line 1 column 1 (char 0)">>

\* The messages of _make_request are written in parts, so that a message
\* starts with a text when its first parts are that text.
FailedToConnect == <<"Failed to connect to Anki">>

AnkiConnectError == <<"AnkiConnect error: ">>

\* _make_request without its "except requests.exceptions.Timeout" clause:
\* a timeout falls through to the last except clause.
MakeRequestWithoutTimeoutClause(transport, value, error_text) ==
    CASE transport = "refused" ->
            [ok |-> FALSE,
             message |-> FailedToConnect \o <<": connection refused">>]
      [] transport = "timeout" ->
            [ok |-> FALSE,
             message |-> <<"Request failed: ", "Request timed out">>]
      [] transport = "http_error" ->
            [ok |-> FALSE, message |-> <<"Request failed: ">> \o HTTPErrorText]
      [] transport = "bad_json" ->
            [ok |-> FALSE, message |-> <<"Request failed: ">> \o JSONErrorText]
      [] transport = "error" /\ error_text # <<>> ->
            [ok |-> FALSE,
             message |-> IF "Anki Connect API error" \in Range(error_text)
                         THEN AnkiConnectError \o error_text
                         ELSE <<"Request failed: ">> \o AnkiConnectError
                              \o error_text]
      [] OTHER -> [ok |-> TRUE, value |-> value]

\* _make_request: the value it returns, or the message of the exception it
\* raises.  error_text is the "error" of the answer (empty when it is null
\* or ""); an error answer is raised inside the try statement and so passes
\* through the last except clause, which raises it again as it is when its
\* text holds "Anki Connect API error" and wraps it otherwise.
_make_request(transport, value, error_text) ==
    CASE transport = "refused" ->
            [ok |-> FALSE,
             message |-> FailedToConnect \o <<": connection refused">>]
      [] transport = "timeout" ->
            [ok |-> FALSE,
             message |-> FailedToConnect \o <<": request timed out">>]
      [] transport = "http_error" ->
            [ok |-> FALSE, message |-> <<"Request failed: ">> \o HTTPErrorText]
      [] transport = "bad_json" ->
            [ok |-> FALSE, message |-> <<"Request failed: ">> \o JSONErrorText]
      [] transport = "error" /\ error_text # <<>> ->
            [ok |-> FALSE,
             message |-> IF "Anki Connect API error" \in Range(error_text)
                         THEN AnkiConnectError \o error_text
                         ELSE <<"Request failed: ">> \o AnkiConnectError
                              \o error_text]
      [] OTHER -> [ok |-> TRUE, value |-> value]

Request(action, notes) == [action |-> action, notes |-> notes]

ConnInit ==
    /\ conn_notes = <<>>
    /\ conn_flags = <<>>
    /\ conn_op = [name |-> "none", notes |-> <<>>]
    /\ conn_calls = <<>>
    /\ conn_result = [ok |-> TRUE, value |-> <<>>]

\* The collection after the endpoint has made notes with the given texts.
Store(texts) == conn_notes \o texts

\* add_note: one addNote request; its result is returned as it comes.
add_note ==
    /\ Len(conn_notes) < MaxRemoteNotes
    /\ \E fields \in FieldTexts, transport \in Transports :
          LET id == Len(conn_notes) + 1
              r == _make_request(transport, Some(id), <<"cannot create note">>)
          IN  /\ conn_calls' = <<Request("addNote", <<>>)>>
              /\ conn_result' = r
              /\ conn_op' = [name |-> "add_note",
                             notes |-> IF r.ok THEN <<id>> ELSE <<>>]
              /\ conn_notes' = IF r.ok THEN Store(<<fields>>) ELSE conn_notes
              /\ conn_flags' = IF r.ok THEN Append(conn_flags, 0) ELSE conn_flags
    /\ UNCHANGED <<uploadVars, parseVars, fnVars>>

\* The texts of the notes the endpoint makes, in order.
RECURSIVE MadeTexts(_, _)
MadeTexts(notes, made) ==
    IF notes = <<>> THEN <<>>
    ELSE (IF Head(made) THEN <<Head(notes)>> ELSE <<>>)
         \o MadeTexts(Tail(notes), Tail(made))

\* The ids the endpoint answers with: the next free id for a note it makes,
\* null for one it rejects.
RECURSIVE MadeIds(_, _)
MadeIds(made, next) ==
    IF made = <<>> THEN <<>>
    ELSE IF Head(made) THEN <<Some(next)>> \o MadeIds(Tail(made), next + 1)
    ELSE <<None>> \o MadeIds(Tail(made), next)

\* add_notes: one addNotes request; its result is returned as it comes.
add_notes ==
    /\ Len(conn_notes) + 2 <= MaxRemoteNotes
    /\ \E notes \in [1..2 -> FieldTexts], made \in [1..2 -> BOOLEAN],
          transport \in Transports :
          LET ids == MadeIds(made, Len(conn_notes) + 1)
              r == _make_request(transport, ids, <<"cannot create note">>)
              new == IF r.ok THEN MadeTexts(notes, made) ELSE <<>>
          IN  /\ conn_calls' = <<Request("addNotes", <<>>)>>
              /\ conn_result' = r
              /\ conn_op' = [name |-> "add_notes",
                             notes |-> [k \in 1..Len(new) |-> Len(conn_notes) + k]]
              /\ conn_notes' = Store(new)
              /\ conn_flags' = conn_flags \o [k \in 1..Len(new) |-> 0]
    /\ UNCHANGED <<uploadVars, parseVars, fnVars>>

\* update_note: one updateNoteFields request; nothing is returned.
update_note ==
    /\ \E note_id \in 1..MaxRemoteNotes, fields \in FieldTexts,
          transport \in Transports :
          \* the endpoint answers with an error for a note it does not hold
          /\ transport = "result" => note_id <= Len(conn_notes)
          /\ LET r == _make_request(transport, <<>>, <<"note was not found">>)
             IN  /\ conn_calls' = <<Request("updateNoteFields", <<note_id>>)>>
                 /\ conn_result' = r
                 /\ conn_op' = [name |-> "update_note",
                                notes |-> IF r.ok THEN <<note_id>> ELSE <<>>]
                 /\ conn_notes' = IF r.ok
                                  THEN [conn_notes EXCEPT ![note_id] = fields]
                                  ELSE conn_notes
    /\ UNCHANGED conn_flags
    /\ UNCHANGED <<uploadVars, parseVars, fnVars>>

ConnNext == add_note \/ add_notes \/ update_note

----------------------------------------------------------------------------
(* FlashcardGenerator.parse_text_to_cards of fastmcp_flashcard_server.py.  *)
(* A text is a sequence of characters, positions count from 1, and a       *)
(* position one past the end stands for the end of the text.               *)

MaxTokens == 4

MaxPairs == 2

MaxParagraphs == 3

\* \s of the regular expressions and the characters str.strip() removes.
IsSpace(c) == c \in {" ", "\n", "\t", "\r"}

\* re.IGNORECASE for the letters of the two labels.
Lower(c) == CASE c = "Q" -> "q" [] c = "A" -> "a" [] OTHER -> c

Min(S) == CHOOSE x \in S : \A y \in S : x <= y

Max(S) == CHOOSE x \in S : \A y \in S : x >= y

\* t[from .. to-1]
Slice(t, from, to) == SubSeq(t, from, to - 1)

RECURSIVE Flatten(_)
Flatten(parts) ==
    IF parts = <<>> THEN <<>> ELSE Head(parts) \o Flatten(Tail(parts))

\* \s* taken greedily from position p: the first position not holding space.
SkipSpace(t, p) ==
    LET S == {q \in p..Len(t) : ~IsSpace(t[q])}
    IN  IF S = {} THEN Len(t) + 1 ELSE Min(S)

\* str.strip()
strip(t) ==
    LET first == SkipSpace(t, 1)
        S == {q \in 1..Len(t) : ~IsSpace(t[q])}
    IN  IF S = {} THEN <<>> ELSE SubSeq(t, first, Max(S))

\* "Q:" or "A:" in either case at position p; label is the lower-case letter.
LabelAt(t, p, label) ==
    /\ p + 1 <= Len(t)
    /\ Lower(t[p]) = label
    /\ t[p + 1] = ":"

\* The first label at or after position p, 0 when there is none.
FirstLabel(t, p, label) ==
    LET S == {q \in p..Len(t) : LabelAt(t, q, label)}
    IN  IF S = {} THEN 0 ELSE Min(S)

\* (.*?)\s*A: -- the lazy group ends where the run of space before the
\* answer label at position a begins, and not before position lo.
SpaceRunStart(t, lo, a) ==
    Min({e \in lo..a : \A q \in e..(a - 1) : IsSpace(t[q])})

\* (.*?)(?=Q:|$) -- the lazy group that starts at position p2 ends at the
\* next question label, or at the end of the text.
BackEndIgnoresLabels(t, p2) == Len(t) + 1

BackEnd(t, p2) ==
    LET q == FirstLabel(t, p2, "q")
    IN  IF q = 0 THEN Len(t) + 1 ELSE q

\* preserve_claude_latex: text.replace("\\$", "$") on a non-empty text.
RECURSIVE preserve_claude_latex(_)
preserve_claude_latex(t) ==
    IF t = <<>> THEN t
    ELSE IF Len(t) >= 2 /\ t[1] = "\\" /\ t[2] = "$"
         THEN <<"$">> \o preserve_claude_latex(SubSeq(t, 3, Len(t)))
         ELSE <<t[1]>> \o preserve_claude_latex(Tail(t))

\* re.finditer(r"Q:\s*(.*?)\s*A:\s*(.*?)(?=Q:|$)", t, DOTALL | IGNORECASE)
\* from position pos on: the two groups of every match, in order.
RECURSIVE qa_matches(_, _)
qa_matches(t, pos) ==
    LET s == FirstLabel(t, pos, "q")
        p1 == SkipSpace(t, s + 2)
        a == FirstLabel(t, p1, "a")
        e == SpaceRunStart(t, p1, a)
        p2 == SkipSpace(t, a + 2)
        e2 == BackEnd(t, p2)
    IN  IF s = 0 \/ a = 0 THEN <<>>
        ELSE <<[group1 |-> Slice(t, p1, e), group2 |-> Slice(t, p2, e2)]>>
             \o qa_matches(t, e2)

\* The card of one match.
QACard(m) ==
    [front |-> preserve_claude_latex(strip(m.group1)),
     back |-> preserve_claude_latex(strip(m.group2))]

\* re.split(r"\n\s*\n|---", t) with dashes, re.split(r"\n\s*\n", t) without:
\* the pieces from position k on, cur being the piece collected so far.
RECURSIVE Sections(_, _, _, _)
Sections(t, k, cur, dashes) ==
    IF k > Len(t) THEN <<cur>>
    ELSE LET r == SkipSpace(t, k + 1)
             N == {m \in (k + 1)..(r - 1) : t[m] = "\n"}
         IN  IF t[k] = "\n" /\ N # {}
             THEN <<cur>> \o Sections(t, Max(N) + 1, <<>>, dashes)
             ELSE IF dashes /\ k + 2 <= Len(t)
                     /\ t[k] = "-" /\ t[k + 1] = "-" /\ t[k + 2] = "-"
             THEN <<cur>> \o Sections(t, k + 3, <<>>, dashes)
             ELSE Sections(t, k + 1, Append(cur, t[k]), dashes)

\* section.split("\n")
RECURSIVE SplitLines(_, _)
SplitLines(t, cur) ==
    IF t = <<>> THEN <<cur>>
    ELSE IF Head(t) = "\n" THEN <<cur>> \o SplitLines(Tail(t), <<>>)
    ELSE SplitLines(Tail(t), Append(cur, Head(t)))

\* "\n".join(lines)
RECURSIVE JoinLines(_)
JoinLines(lines) ==
    IF lines = <<>> THEN <<>>
    ELSE IF Len(lines) = 1 THEN lines[1]
    ELSE lines[1] \o <<"\n">> \o JoinLines(Tail(lines))

\* The fallback of the front-back branch: one card for every section of at
\* least two lines.
RECURSIVE SectionCards(_)
SectionCards(sections) ==
    IF sections = <<>> THEN <<>>
    ELSE LET section == strip(Head(sections))
             lines == SplitLines(section, <<>>)
             card == [front |-> preserve_claude_latex(strip(lines[1])),
                      back |-> preserve_claude_latex(strip(JoinLines(Tail(lines))))]
         IN  (IF section # <<>> /\ Len(lines) >= 2 THEN <<card>> ELSE <<>>)
             \o SectionCards(Tail(sections))

\* pat occurs in t at position p.
OccursAt(t, pat, p) ==
    /\ p + Len(pat) - 1 <= Len(t)
    /\ \A k \in 1..Len(pat) : t[p + k - 1] = pat[k]

\* The first occurrence of pat in t at or after position p, 0 when none.
Find(t, pat, p) ==
    LET S == {q \in p..(Len(t) + 1) : OccursAt(t, pat, q)}
    IN  IF S = {} THEN 0 ELSE Min(S)

\* re.findall(r"\{\{(.*?)\}\}", t) from position pos on.  The dot matches no
\* newline, so an opening marker whose line holds no closing marker after it
\* opens nothing.
RECURSIVE findall(_, _)
findall(t, pos) ==
    LET Closes(s, e) == /\ OccursAt(t, <<"}", "}">>, e)
                        /\ \A q \in (s + 2)..(e - 1) : t[q] # "\n"
        Opens(s) == /\ OccursAt(t, <<"{", "{">>, s)
                    /\ \E e \in (s + 2)..Len(t) : Closes(s, e)
        S == {q \in pos..Len(t) : Opens(q)}
        s == Min(S)
        e == Min({q \in (s + 2)..Len(t) : Closes(s, q)})
    IN  IF S = {} THEN <<>>
        ELSE <<Slice(t, s + 2, e)>> \o findall(t, e + 2)

Digit == <<"1", "2", "3", "4", "5", "6", "7", "8", "9">>

\* str(n) for n >= 1
RECURSIVE Decimal(_)
Decimal(n) ==
    IF n < 10 THEN <<Digit[n]>>
    ELSE Decimal(n \div 10) \o <<IF n % 10 = 0 THEN "0" ELSE Digit[n % 10]>>

\* The characters a backslash of a replacement template turns into one.
TemplateEscapes == {"n", "t", "r", "\\"}

Escaped(c) ==
    CASE c = "n" -> "\n" [] c = "t" -> "\t" [] c = "r" -> "\r" [] OTHER -> "\\"

\* The letters and digits of the texts considered here: after a backslash,
\* a letter outside TemplateEscapes is a bad escape and a digit is a
\* reference to a group the pattern does not have.
AsciiAlnum == {"a", "c", "n", "r", "s", "t", "x", "A", "Q", "q"} \cup Range(Digit)

\* The replacement template of re.sub expanded: backslash escapes are
\* processed, and a bad one raises re.error.
RECURSIVE ExpandTemplate(_)
ExpandTemplate(t) ==
    IF t = <<>> THEN [ok |-> TRUE, text |-> <<>>]
    ELSE IF t[1] # "\\"
    THEN LET rest == ExpandTemplate(Tail(t))
         IN  IF rest.ok THEN [ok |-> TRUE, text |-> <<t[1]>> \o rest.text]
             ELSE rest
    ELSE IF Len(t) = 1 THEN [ok |-> FALSE, error |-> "re.error"]
    ELSE LET rest == ExpandTemplate(SubSeq(t, 3, Len(t)))
         IN  IF t[2] \in TemplateEscapes
             THEN IF rest.ok
                  THEN [ok |-> TRUE, text |-> <<Escaped(t[2])>> \o rest.text]
                  ELSE rest
             ELSE IF t[2] \in AsciiAlnum
             THEN [ok |-> FALSE, error |-> "re.error"]
             ELSE IF rest.ok
             THEN [ok |-> TRUE, text |-> <<t[1], t[2]>> \o rest.text]
             ELSE rest

\* The loop of create_anki_cloze_card from the n-th match on: the first
\* "{{match}}" left in card_text becomes "{{cn::match}}".
RECURSIVE NumberDeletions(_, _, _)
NumberDeletions(card_text, matches, n) ==
    IF matches = <<>> THEN [ok |-> TRUE, text |-> card_text]
    ELSE LET match == Head(matches)
             old_pattern == <<"{", "{">> \o match \o <<"}", "}">>
             replacement ==
                 ExpandTemplate(<<"{", "{", "c">> \o Decimal(n) \o <<":", ":">>
                                \o match \o <<"}", "}">>)
             at == Find(card_text, old_pattern, 1)
         IN  IF ~replacement.ok THEN replacement
             ELSE IF at = 0
             THEN NumberDeletions(card_text, Tail(matches), n + 1)
             ELSE NumberDeletions(
                      Slice(card_text, 1, at) \o replacement.text
                      \o SubSeq(card_text, at + Len(old_pattern), Len(card_text)),
                      Tail(matches), n + 1)

create_anki_cloze_card(t) ==
    LET matches == findall(t, 1)
    IN  IF matches = <<>> THEN [ok |-> FALSE, error |-> "ValueError"]
        ELSE NumberDeletions(t, matches, 1)

\* The cloze branch: a section without deletions is skipped, any other
\* exception leaves parse_text_to_cards.
RECURSIVE ClozeCards(_)
ClozeCards(sections) ==
    IF sections = <<>> THEN [ok |-> TRUE, cards |-> <<>>]
    ELSE LET section == strip(Head(sections))
             cloze_text == create_anki_cloze_card(section)
             rest == ClozeCards(Tail(sections))
         IN  IF section = <<>> THEN rest
             ELSE IF cloze_text.ok
             THEN IF rest.ok
                  THEN [ok |-> TRUE,
                        cards |-> <<[text |-> preserve_claude_latex(cloze_text.text)]>>
                                  \o rest.cards]
                  ELSE rest
             ELSE IF cloze_text.error = "ValueError" THEN rest
             ELSE [ok |-> FALSE, error |-> cloze_text.error]

\* What parse_text_to_cards returns, or the exception that leaves it.
\* Faulty variant: the sections are looked at first, the labels only when
\* the sections give no card.
ParseSectionsFirst(t, kind) ==
    LET stripped == strip(t)
        found == qa_matches(stripped, 1)
        by_section == SectionCards(Sections(stripped, 1, <<>>, TRUE))
    IN  IF kind = "front-back"
        THEN [ok |-> TRUE,
              cards |-> IF by_section = <<>>
                        THEN [n \in 1..Len(found) |-> QACard(found[n])]
                        ELSE by_section]
        ELSE IF kind = "cloze"
        THEN ClozeCards(Sections(stripped, 1, <<>>, FALSE))
        ELSE [ok |-> TRUE, cards |-> <<>>]

parse_text_to_cards(t, kind) ==
    LET stripped == strip(t)
        found == qa_matches(stripped, 1)
    IN  IF kind = "front-back"
        THEN [ok |-> TRUE,
              cards |-> IF found # <<>>
                        THEN [n \in 1..Len(found) |-> QACard(found[n])]
                        ELSE SectionCards(Sections(stripped, 1, <<>>, TRUE))]
        ELSE IF kind = "cloze"
        THEN ClozeCards(Sections(stripped, 1, <<>>, FALSE))
        ELSE [ok |-> TRUE, cards |-> <<>>]

\* The pieces free texts are put together from, by card type.
Tokens(kind) ==
    IF kind = "front-back"
    THEN {<<"Q", ":">>, <<"a", ":">>, <<" ">>, <<"\n">>, <<"x">>,
          <<"-", "-", "-">>, <<"\\", "$">>}
    ELSE {<<"{", "{">>, <<"}", "}">>, <<"x">>, <<"\n">>, <<" ">>,
          <<"\\">>, <<"s">>}

\* Fronts and backs of dictated pairs: trimmed texts without label text.
Contents ==
    {<<>>, <<"x">>, <<"x", "\n", "y">>, <<"\\", "$">>, <<"a", " ", ":", "q">>,
     <<"$", "x", "$">>}

\* The space put between the labels and the contents of dictated pairs.
Gaps == {<<>>, <<" ">>, <<"\n", " ">>}

\* "Q: front A: back" for every pair, in order.
RECURSIVE Dictation(_, _)
Dictation(pairs, gap) ==
    IF pairs = <<>> THEN <<>>
    ELSE <<"Q", ":">> \o gap \o Head(pairs).front \o gap
         \o <<"A", ":">> \o gap \o Head(pairs).back \o gap
         \o Dictation(Tail(pairs), gap)

\* Paragraphs, each a sequence of lines: of one, two and three lines, with
\* space around a line, with an escaped dollar sign, with a lone label.
ParagraphPool ==
    {<<<<"x">>>>,
     <<<<"x">>, <<"y">>>>,
     <<<<"x">>, <<" ", "y", " ">>, <<"z">>>>,
     <<<<"\\", "$">>, <<"a", ":">>>>,
     <<<<"Q", ":", "x">>>>}

\* What stands between two paragraphs: a run of blank lines, or "---".
Separators ==
    {<<"\n", "\n">>, <<"\n", " ", "\n">>, <<"\n", "\n", "\n">>,
     <<"-", "-", "-">>}

\* The paragraphs written out, sep between every two of them.
RECURSIVE Essay(_, _)
Essay(ps, sep) ==
    IF ps = <<>> THEN <<>>
    ELSE IF Len(ps) = 1 THEN JoinLines(ps[1])
    ELSE JoinLines(ps[1]) \o sep \o Essay(Tail(ps), sep)

ParseInit ==
    /\ ppc = "ready"
    /\ cards = <<>>
    /\ \/ /\ card_type = "front-back"
          /\ \E k \in 1..MaxPairs :
                qa_pairs \in [1..k -> [front : Contents, back : Contents]]
          /\ \E gap \in Gaps : text = Dictation(qa_pairs, gap)
          /\ paragraphs = <<>>
       \/ /\ card_type \in {"front-back", "cloze"}
          /\ qa_pairs = <<>>
          /\ paragraphs = <<>>
          /\ \E tokens \in SeqsUpTo(Tokens(card_type), MaxTokens) :
                text = Flatten(tokens)
       \/ /\ card_type = "front-back"
          /\ qa_pairs = <<>>
          /\ \E k \in 1..MaxParagraphs : paragraphs \in [1..k -> ParagraphPool]
          /\ \E sep \in Separators : text = Essay(paragraphs, sep)

\* "if qa_matches:" -- the text holds question and answer labels.
ParseQA ==
    /\ ppc = "ready"
    /\ card_type = "front-back"
    /\ qa_matches(strip(text), 1) # <<>>
    /\ cards' = parse_text_to_cards(text, card_type).cards
    /\ ppc' = "done"
    /\ UNCHANGED <<text, card_type, qa_pairs, paragraphs, uploadVars, connVars,
                   fnVars>>

\* "else:" -- the fallback on sections.
ParseSections ==
    /\ ppc = "ready"
    /\ card_type = "front-back"
    /\ qa_matches(strip(text), 1) = <<>>
    /\ cards' = parse_text_to_cards(text, card_type).cards
    /\ ppc' = "done"
    /\ UNCHANGED <<text, card_type, qa_pairs, paragraphs, uploadVars, connVars,
                   fnVars>>

\* "elif card_type == "cloze":"
ParseCloze ==
    /\ ppc = "ready"
    /\ card_type = "cloze"
    /\ LET r == parse_text_to_cards(text, card_type)
       IN  /\ cards' = IF r.ok THEN r.cards ELSE <<>>
           /\ ppc' = IF r.ok THEN "done" ELSE "raised"
    /\ UNCHANGED <<text, card_type, qa_pairs, paragraphs, uploadVars, connVars,
                   fnVars>>

ParseNext == ParseQA \/ ParseSections \/ ParseCloze

----------------------------------------------------------------------------
(* FlashcardGenerator.create_anki_cloze_card called on its own.            *)

\* The pieces the texts given to the cloze compiler are put together from.
ClozeTokens ==
    {<<"{", "{">>, <<"}", "}">>, <<"x">>, <<" ">>, <<"\n">>, <<"\\">>,
     <<"s">>, <<"c", "1", ":", ":">>}

ClozeInit ==
    /\ fn = "none"
    /\ fn_out = [ok |-> TRUE, text |-> <<>>]
    /\ \E tokens \in SeqsUpTo(ClozeTokens, MaxTokens) : fn_in = Flatten(tokens)

CompileCloze ==
    /\ fn = "none"
    /\ fn' = "create_anki_cloze_card"
    /\ fn_out' = create_anki_cloze_card(fn_in)
    /\ UNCHANGED <<fn_in, uploadVars, connVars, parseVars>>

ClozeNext == CompileCloze

----------------------------------------------------------------------------
(* AnkiCardManager.convert_to_anki_fields of fastmcp_flashcard_server.py,  *)
(* called on its own.  Card data are dictionaries of opaque texts.         *)

\* The card dictionaries handed to the mapper.
MapCards == {[front |-> "Q", back |-> "A"], [front |-> "Q"], [text |-> "T"]}

MapCardTypes == {"front-back", "cloze", "diagram"}

\* The note types a collection may hold and the field lists it may answer
\* with for the note type the mapper settles on.
MapModels == {"Basic", "Cloze", "Custom"}

MapFieldLists ==
    {<<>>, <<"Front">>, <<"Front", "Back">>, <<"Front", "Back", "Extra">>,
     <<"Side", "Side">>}

\* card_data.get(key, "")
Get(d, key) == IF Has(d, key) THEN d[key] ELSE ""

\* "for field_name in field_names: if field_name not in fields: ..."
FillMissingSkipped(fields, field_names) == fields

FillMissing(fields, field_names) ==
    [f \in DOMAIN fields \cup Range(field_names) |->
        IF f \in DOMAIN fields THEN fields[f] ELSE ""]

\* The dictionary display of the front-back branch: both keys are evaluated
\* whatever the length of field_names, and a repeated key keeps the value
\* written last.
FrontBackFields(card_data, field_names) ==
    IF Len(field_names) < 2 THEN Raise("IndexError")
    ELSE Fields([f \in {field_names[1], field_names[2]} |->
                    IF f = field_names[2] THEN Get(card_data, "back")
                    ELSE Get(card_data, "front")])

\* The branches on card_type.
TypedFields(card_data, kind, field_names) ==
    IF kind = "front-back" THEN FrontBackFields(card_data, field_names)
    ELSE IF Len(field_names) < 1 THEN Raise("IndexError")
    ELSE IF kind = "cloze"
    THEN Fields([f \in {field_names[1]} |-> Get(card_data, "text")])
    ELSE Fields([f \in {field_names[1]} |-> "str(card_data)"])

\* Faulty variant: a requested note type the collection does not hold is
\* an error at once, the default of the card kind is not tried.
ResolveModelWithoutFallback(requested, fallback_model, remote) ==
    IF validate_model_exists(requested, remote.models, remote.names_up)
    THEN Some(requested)
    ELSE None

\* "if not self.validate_model_exists(model_name): ..." -- the note type
\* the mapper settles on, None when it raises.
ResolveModel(requested, fallback_model, remote) ==
    IF validate_model_exists(requested, remote.models, remote.names_up)
    THEN Some(requested)
    ELSE IF /\ fallback_model # requested
            /\ validate_model_exists(fallback_model, remote.models,
                                     remote.names_up)
    THEN Some(fallback_model)
    ELSE None

\* convert_to_anki_fields against a remote that holds the note types
\* remote.models, answers the field-name query with remote.field_names, and
\* answers the two kinds of query or fails them (names_up, fields_up).  The
\* outcome carries the queries issued, the note type settled on and the
\* field list worked with.
MapToFields(card_data, kind, model_name, remote) ==
    LET requested == IF model_name = None
                     THEN get_default_model_for_card_type(kind)
                     ELSE model_name[1]
        fallback_model == get_default_model_for_card_type(kind)
        second == /\ ~validate_model_exists(requested, remote.models,
                                            remote.names_up)
                  /\ fallback_model # requested
        validations == IF second THEN <<"modelNames", "modelNames">>
                       ELSE <<"modelNames">>
        resolved == ResolveModel(requested, fallback_model, remote)
        field_names == IF remote.fields_up THEN remote.field_names
                       ELSE IF kind # "cloze" THEN <<"Front", "Back">>
                       ELSE <<"Text">>
        typed == TypedFields(card_data, kind, field_names)
        queries == Append(validations, "modelFieldNames")
    IN  IF resolved = None
        THEN [ok |-> FALSE, error |-> "no valid fallback", queries |-> validations]
        ELSE IF ~typed.ok
        THEN [ok |-> FALSE, error |-> typed.error, queries |-> queries,
              model |-> resolved[1]]
        ELSE [ok |-> TRUE, fields |-> FillMissing(typed.fields, field_names),
              queries |-> queries, field_names |-> field_names,
              model |-> resolved[1]]

MapInit ==
    /\ fn = "none"
    /\ fn_out = [ok |-> TRUE, text |-> <<>>]
    /\ fn_in \in [card_data : MapCards, card_type : MapCardTypes,
                  model_name : {None} \cup {Some(m) : m \in MapModels},
                  remote : [models : SUBSET MapModels,
                            field_names : MapFieldLists,
                            names_up : BOOLEAN, fields_up : BOOLEAN]]

MapCard ==
    /\ fn = "none"
    /\ fn' = "convert_to_anki_fields"
    /\ fn_out' = MapToFields(fn_in.card_data, fn_in.card_type,
                             fn_in.model_name, fn_in.remote)
    /\ UNCHANGED <<fn_in, uploadVars, connVars, parseVars>>

MapNext == MapCard

----------------------------------------------------------------------------
(* flashcard_server.py: a front-back card as FlashcardGenerator writes it  *)
(* and as AnkiCardManager._parse_front_back_card reads it back, on the     *)
(* characters of the texts.                                                *)

MaxFieldTokens == 2

\* latex_special_chars, in the order of the dictionary.
latex_special_chars ==
    <<[char |-> "&", escaped |-> <<"\\", "&">>],
      [char |-> "%", escaped |-> <<"\\", "%">>],
      [char |-> "$", escaped |-> <<"\\", "$">>],
      [char |-> "#", escaped |-> <<"\\", "#">>],
      [char |-> "^", escaped |-> <<"\\", "t", "e", "x", "t", "a", "s", "c", "i", "i", "c", "i", "r", "c", "u", "m", "{", "}">>],
      [char |-> "_", escaped |-> <<"\\", "_">>],
      [char |-> "{", escaped |-> <<"\\", "{">>],
      [char |-> "}", escaped |-> <<"\\", "}">>],
      [char |-> "~", escaped |-> <<"\\", "t", "e", "x", "t", "a", "s", "c", "i", "i", "t", "i", "l", "d", "e", "{", "}">>],
      [char |-> "\\", escaped |-> <<"\\", "t", "e", "x", "t", "b", "a", "c", "k", "s", "l", "a", "s", "h", "{", "}">>]>>

\* text.replace(char, escaped)
RECURSIVE ReplaceChar(_, _, _)
ReplaceChar(t, char, escaped) ==
    IF t = <<>> THEN <<>>
    ELSE (IF Head(t) = char THEN escaped ELSE <<Head(t)>>)
         \o ReplaceChar(Tail(t), char, escaped)

\* The loop of escape_latex from the k-th entry on: every replacement works
\* on the outcome of the one before it.
RECURSIVE EscapeFrom(_, _)
EscapeFrom(t, k) ==
    IF k > Len(latex_special_chars) THEN t
    ELSE EscapeFrom(ReplaceChar(t, latex_special_chars[k].char,
                                latex_special_chars[k].escaped), k + 1)

escape_latex(t) == EscapeFrom(t, 1)

BeginFlashcard == <<"\\", "b", "e", "g", "i", "n", "{", "f", "l", "a", "s", "h", "c", "a", "r", "d", "}">>

EndFlashcard == <<"\\", "e", "n", "d", "{", "f", "l", "a", "s", "h", "c", "a", "r", "d", "}">>

create_front_back_card(front, back) ==
    BeginFlashcard \o <<"{">> \o escape_latex(front) \o <<"}", "\n">>
    \o escape_latex(back) \o <<"\n">> \o EndFlashcard

\* re.sub(pat + r".*?\n", "", t) from position k on: an occurrence of pat
\* goes together with the rest of its line and the newline; on a last line
\* without newline it stays.
RECURSIVE RemoveThroughNewline(_, _, _)
RemoveThroughNewline(t, pat, k) ==
    LET N == {n \in (k + Len(pat))..Len(t) : t[n] = "\n"}
    IN  IF k > Len(t) THEN <<>>
        ELSE IF OccursAt(t, pat, k) /\ N # {}
        THEN RemoveThroughNewline(t, pat, Min(N) + 1)
        ELSE <<t[k]>> \o RemoveThroughNewline(t, pat, k + 1)

\* re.sub(pat + r".*", "", t) from position k on: an occurrence of pat goes
\* together with the rest of its line, the newline stays.
RECURSIVE RemoveToLineEnd(_, _, _)
RemoveToLineEnd(t, pat, k) ==
    LET N == {n \in (k + Len(pat))..Len(t) : t[n] = "\n"}
    IN  IF k > Len(t) THEN <<>>
        ELSE IF OccursAt(t, pat, k)
        THEN RemoveToLineEnd(t, pat, IF N = {} THEN Len(t) + 1 ELSE Min(N))
        ELSE <<t[k]>> \o RemoveToLineEnd(t, pat, k + 1)

\* _parse_front_back_card on the characters of the content.
parse_front_back_content(content, field_names) ==
    LET body == strip(RemoveToLineEnd(
                    RemoveThroughNewline(content, BeginFlashcard, 1),
                    EndFlashcard, 1))
        N == {n \in 1..Len(body) : body[n] = "\n"}
        first == strip(Slice(body, 1, Min(N)))
        rest == strip(SubSeq(body, Min(N) + 1, Len(body)))
    IN  IF N # {}
        THEN IF Len(field_names) < 2 THEN Raise("IndexError")
             ELSE Fields([f \in {field_names[1], field_names[2]} |->
                             IF f = field_names[2] THEN rest ELSE first])
        ELSE IF Len(field_names) < 1 THEN Raise("IndexError")
        ELSE IF Len(field_names) > 1
        THEN Fields([f \in {field_names[1], field_names[2]} |->
                        IF f = field_names[2] THEN <<>> ELSE body])
        ELSE Fields([f \in {field_names[1]} |-> body])

\* The pieces fronts and backs are put together from.
FieldTokens == {<<"F">>, <<"G">>, <<"\n">>, <<"_">>, <<"\\">>}

\* The fronts and backs parse_text_to_cards hands over: stripped texts.
FieldTextsOf(n) ==
    {Flatten(tokens) : tokens \in
        {w \in SeqsUpTo(FieldTokens, n) : w # <<>> /\ strip(Flatten(w)) = Flatten(w)}}

CardInit ==
    /\ fn = "none"
    /\ fn_out = [ok |-> TRUE, text |-> <<>>]
    /\ fn_in \in [front : FieldTextsOf(MaxFieldTokens),
                  back : FieldTextsOf(MaxFieldTokens),
                  field_names : {<<"Front", "Back">>}]

\* The card is written by create_front_back_card and read back by
\* _parse_front_back_card.
MapGeneratedCard ==
    /\ fn = "none"
    /\ fn' = "_parse_front_back_card"
    /\ fn_out' = parse_front_back_content(
                     create_front_back_card(fn_in.front, fn_in.back),
                     fn_in.field_names)
    /\ UNCHANGED <<fn_in, uploadVars, connVars, parseVars>>

CardNext == MapGeneratedCard

----------------------------------------------------------------------------
(* The LaTeX delimiter conversions of FlashcardGenerator                   *)
(* (fastmcp_flashcard_server.py): convert_to_anki_mathjax and              *)
(* convert_latex_to_display_format.                                        *)

MaxSegments == 3

Open == <<"\\", "[">>

Close == <<"\\", "]">>

\* The first position at or after p that holds one of the characters of
\* stops; one past the end when there is none.
FirstOf(t, p, stops) ==
    LET S == {q \in p..Len(t) : t[q] \in stops}
    IN  IF S = {} THEN Len(t) + 1 ELSE Min(S)

\* re.sub(r"\$\$([^$]+?)\$\$", r"\\[\1\\]", t) from position k on.
RECURSIVE MathjaxDisplay(_, _)
MathjaxDisplay(t, k) ==
    LET r == FirstOf(t, k + 2, {"$"})
    IN  IF k > Len(t) THEN <<>>
        ELSE IF /\ OccursAt(t, <<"$", "$">>, k)
                /\ r > k + 2
                /\ OccursAt(t, <<"$", "$">>, r)
        THEN Open \o Slice(t, k + 2, r) \o Close \o MathjaxDisplay(t, r + 2)
        ELSE <<t[k]>> \o MathjaxDisplay(t, k + 1)

\* re.sub(r"\$([^$\n]+?)\$", r"\\(\1\\)", t) from position k on.
RECURSIVE MathjaxInline(_, _)
MathjaxInline(t, k) ==
    LET r == FirstOf(t, k + 1, {"$", "\n"})
    IN  IF k > Len(t) THEN <<>>
        ELSE IF t[k] = "$" /\ r > k + 1 /\ r <= Len(t) /\ t[r] = "$"
        THEN <<"\\", "(">> \o Slice(t, k + 1, r) \o <<"\\", ")">>
             \o MathjaxInline(t, r + 1)
        ELSE <<t[k]>> \o MathjaxInline(t, k + 1)

convert_to_anki_mathjax(t) ==
    IF t = <<>> THEN t ELSE MathjaxInline(MathjaxDisplay(t, 1), 1)

\* str(n) for n >= 0
Str(n) == IF n = 0 THEN <<"0">> ELSE Decimal(n)

\* f"__MJX_DISPLAY_{n}__"
Placeholder(n) ==
    <<"_", "_", "M", "J", "X", "_", "D", "I", "S", "P", "L", "A", "Y", "_">> \o Str(n) \o <<"_", "_">>

\* The matches of r"\\\[[\s\S]*?\\\]" in t from position k on, in order.
RECURSIVE placeholders(_, _)
placeholders(t, k) ==
    LET r == Find(t, Close, k + 2)
    IN  IF k > Len(t) THEN <<>>
        ELSE IF OccursAt(t, Open, k) /\ r # 0
        THEN <<Slice(t, k, r + 2)>> \o placeholders(t, r + 2)
        ELSE placeholders(t, k + 1)

\* re.sub(r"\\\[[\s\S]*?\\\]", _protect, t) from position k on, n matches
\* having been protected before.
RECURSIVE Protect(_, _, _)
Protect(t, k, n) ==
    LET r == Find(t, Close, k + 2)
    IN  IF k > Len(t) THEN <<>>
        ELSE IF OccursAt(t, Open, k) /\ r # 0
        THEN Placeholder(n) \o Protect(t, r + 2, n + 1)
        ELSE <<t[k]>> \o Protect(t, k + 1, n)

\* re.sub(r"\\\(([^)]*?)\\\)", r"\\[\1\\]", t) from position k on: the group
\* holds no closing parenthesis, so the first one must close the span.
RECURSIVE ParenToDisplay(_, _)
ParenToDisplay(t, k) ==
    LET r == FirstOf(t, k + 2, {")"})
    IN  IF k > Len(t) THEN <<>>
        ELSE IF /\ OccursAt(t, <<"\\", "(">>, k)
                /\ r <= Len(t) /\ r >= k + 3
                /\ t[r - 1] = "\\"
        THEN Open \o Slice(t, k + 2, r - 1) \o Close \o ParenToDisplay(t, r + 1)
        ELSE <<t[k]>> \o ParenToDisplay(t, k + 1)

\* re.sub(r"\$\$([\s\S]*?)\$\$", r"\\[\1\\]", t) from position k on.
RECURSIVE DollarsToDisplay(_, _)
DollarsToDisplay(t, k) ==
    LET r == Find(t, <<"$", "$">>, k + 2)
    IN  IF k > Len(t) THEN <<>>
        ELSE IF OccursAt(t, <<"$", "$">>, k) /\ r # 0
        THEN Open \o Slice(t, k + 2, r) \o Close \o DollarsToDisplay(t, r + 2)
        ELSE <<t[k]>> \o DollarsToDisplay(t, k + 1)

\* re.sub(r"(?<!\$)\$([^\n$]+?)\$(?!\$)", r"\\[\1\\]", t) from position k on.
RECURSIVE InlineToDisplay(_, _)
InlineToDisplay(t, k) ==
    LET r == FirstOf(t, k + 1, {"$", "\n"})
    IN  IF k > Len(t) THEN <<>>
        ELSE IF /\ t[k] = "$"
                /\ (k = 1 \/ t[k - 1] # "$")
                /\ r > k + 1 /\ r <= Len(t) /\ t[r] = "$"
                /\ (r = Len(t) \/ t[r + 1] # "$")
        THEN Open \o Slice(t, k + 1, r) \o Close \o InlineToDisplay(t, r + 1)
        ELSE <<t[k]>> \o InlineToDisplay(t, k + 1)

\* t.replace(pat, by) from position k on.
RECURSIVE ReplaceAll(_, _, _, _)
ReplaceAll(t, pat, by, k) ==
    IF k > Len(t) THEN <<>>
    ELSE IF OccursAt(t, pat, k)
    THEN by \o ReplaceAll(t, pat, by, k + Len(pat))
    ELSE <<t[k]>> \o ReplaceAll(t, pat, by, k + 1)

\* "for i, ph in enumerate(placeholders): s = s.replace(...)" from i = n on.
RECURSIVE Restore(_, _, _)
Restore(t, phs, n) ==
    IF n >= Len(phs) THEN t
    ELSE Restore(ReplaceAll(t, Placeholder(n), phs[n + 1], 1), phs, n + 1)

convert_latex_to_display_format(t) ==
    IF t = <<>> THEN t
    ELSE Restore(
             InlineToDisplay(
                 DollarsToDisplay(ParenToDisplay(Protect(t, 1, 0), 1), 1), 1),
             placeholders(t, 1), 0)

\* The texts given to the conversions are written segment by segment: plain
\* text, or math between one of the four pairs of delimiters.
Delimiters(kind) ==
    CASE kind = "inline" -> [open |-> <<"$">>, close |-> <<"$">>]
      [] kind = "dollars" -> [open |-> <<"$", "$">>, close |-> <<"$", "$">>]
      [] kind = "paren" -> [open |-> <<"\\", "(">>, close |-> <<"\\", ")">>]
      [] kind = "bracket" -> [open |-> Open, close |-> Close]
      [] OTHER -> [open |-> <<>>, close |-> <<>>]

SegmentPool ==
    {[kind |-> "plain", content |-> <<"x">>],
     [kind |-> "plain", content |-> <<" ">>],
     [kind |-> "plain", content |-> Placeholder(0)],
     [kind |-> "inline", content |-> <<"x">>],
     [kind |-> "inline", content |-> <<"x", "\n", "y">>],
     [kind |-> "dollars", content |-> <<"x">>],
     [kind |-> "dollars", content |-> <<"x", "\n", "y">>],
     [kind |-> "paren", content |-> <<"x">>],
     [kind |-> "paren", content |-> <<"f", "(", "x", ")">>],
     [kind |-> "bracket", content |-> <<"x">>],
     [kind |-> "bracket", content |-> <<"$", "x", "$">>],
     [kind |-> "bracket", content |-> <<"\\", "(", "x", "\\", ")">>],
     [kind |-> "bracket", content |-> Placeholder(1)]}

\* The segments written out, every kind of segment with the delimiters of
\* the kind As gives for it.
RECURSIVE Written(_, _)
Written(segments, As) ==
    IF segments = <<>> THEN <<>>
    ELSE LET d == Delimiters(As[Head(segments).kind])
         IN  d.open \o Head(segments).content \o d.close
             \o Written(Tail(segments), As)

Kinds == {"plain", "inline", "dollars", "paren", "bracket"}

AsWritten == [k \in Kinds |-> k]

LatexInit ==
    /\ fn = "none"
    /\ fn_out = [ok |-> TRUE, text |-> <<>>]
    /\ \E segments \in SeqsUpTo(SegmentPool, MaxSegments) :
          fn_in = [segments |-> segments, text |-> Written(segments, AsWritten)]

ToMathjax ==
    /\ fn = "none"
    /\ fn' = "convert_to_anki_mathjax"
    /\ fn_out' = [ok |-> TRUE, text |-> convert_to_anki_mathjax(fn_in.text)]
    /\ UNCHANGED <<fn_in, uploadVars, connVars, parseVars>>

ToDisplay ==
    /\ fn = "none"
    /\ fn' = "convert_latex_to_display_format"
    /\ fn_out' = [ok |-> TRUE,
                  text |-> convert_latex_to_display_format(fn_in.text)]
    /\ UNCHANGED <<fn_in, uploadVars, connVars, parseVars>>

LatexNext == ToMathjax \/ ToDisplay

----------------------------------------------------------------------------
(* AnkiConnector._make_request (fastmcp_flashcard_server.py) on its own:   *)
(* one call for every outcome of the request.                              *)

\* The "error" of an answer: null or "" (the empty text), or a text.  The
\* texts include ones that hold the wording of the connector's own messages.
ErrorTexts ==
    {<<>>,
     <<"collection is not available">>,
     <<"Failed to connect to Anki">>,
     <<"Failed to connect to Anki", ": connection refused">>,
     <<"AnkiConnect error: ", "deck was not found">>,
     <<"Anki Connect API error">>,
     <<"Request failed: ">>}

\* The "result" of an answer: null, a list of names, a note id.
ResultValues == {None, <<"Default", "Test">>, Some(1)}

RequestInit ==
    /\ fn = "none"
    /\ fn_out = [ok |-> TRUE, text |-> <<>>]
    /\ \E transport \in Transports, value \in ResultValues,
          error_text \in ErrorTexts :
          fn_in = [transport |-> transport, result |-> value,
                   error |-> error_text]

MakeRequest ==
    /\ fn = "none"
    /\ fn' = "_make_request"
    /\ fn_out' = _make_request(fn_in.transport, fn_in.result, fn_in.error)
    /\ UNCHANGED <<fn_in, uploadVars, connVars, parseVars>>

RequestNext == MakeRequest

----------------------------------------------------------------------------
(* AnkiCardManager.upload_cards_to_anki of fastmcp_flashcard_server.py,    *)
(* as one call against a remote whose answers are part of the input.       *)

MaxUploadCards == 2

\* Card dictionaries as the upload_to_anki tool and other callers make them.
UploadCardPool ==
    {[data |-> [front |-> "Q", back |-> "A"], card_type |-> "front-back"],
     [data |-> [text |-> "T"], card_type |-> "cloze", model_name |-> "Custom"],
     [data |-> [front |-> "Q"]],
     [card_type |-> "front-back"]}

\* The remote of one upload: the note types it holds, the field list it
\* answers with, which kinds of call it answers, and which notes of a
\* bulk-create call it makes.
UploadRemotes ==
    {r \in [models : {{"Basic", "Cloze"}, {"Basic"}, {}},
            field_names : {<<"Front", "Back">>, <<"Front">>},
            names_up : BOOLEAN, fields_up : BOOLEAN,
            permission_up : BOOLEAN, deck_up : BOOLEAN, add_up : BOOLEAN,
            made : [1..MaxUploadCards -> BOOLEAN]] :
        \* calls that are never reached do not tell remotes apart
        /\ ~r.permission_up => r.deck_up
        /\ ~r.add_up => \A k \in 1..MaxUploadCards : r.made[k]}

\* Faulty variant: a card whose mapping fails is left out and the loop goes
\* on with the next card.
RECURSIVE ConvertCardsSkippingFailures(_, _)
ConvertCardsSkippingFailures(cs, remote) ==
    IF cs = <<>> THEN [ok |-> TRUE, notes |-> <<>>, queries |-> <<>>]
    ELSE LET card_data == Head(cs)
             kind == IF Has(card_data, "card_type")
                     THEN card_data.card_type ELSE "front-back"
             model_name == IF Has(card_data, "model_name")
                           THEN card_data.model_name
                           ELSE get_default_model_for_card_type(kind)
             m == IF Has(card_data, "data")
                  THEN MapToFields(card_data.data, kind, Some(model_name), remote)
                  ELSE [ok |-> FALSE, error |-> "'data'", queries |-> <<>>]
             rest == ConvertCardsSkippingFailures(Tail(cs), remote)
         IN  [ok |-> TRUE,
              notes |-> (IF m.ok
                         THEN <<[model_name |-> model_name, fields |-> m.fields]>>
                         ELSE <<>>) \o rest.notes,
              queries |-> m.queries \o rest.queries]

\* "for card_data in cards_data:" -- the notes of the cards in order, or the
\* exception of the first card whose mapping raises; the queries issued up
\* to there.
RECURSIVE ConvertCards(_, _)
ConvertCards(cs, remote) ==
    IF cs = <<>> THEN [ok |-> TRUE, notes |-> <<>>, queries |-> <<>>]
    ELSE LET card_data == Head(cs)
             kind == IF Has(card_data, "card_type")
                     THEN card_data.card_type ELSE "front-back"
             model_name == IF Has(card_data, "model_name")
                           THEN card_data.model_name
                           ELSE get_default_model_for_card_type(kind)
             m == IF Has(card_data, "data")
                  THEN MapToFields(card_data.data, kind, Some(model_name), remote)
                  ELSE [ok |-> FALSE, error |-> "'data'", queries |-> <<>>]
             rest == ConvertCards(Tail(cs), remote)
         IN  IF ~m.ok
             THEN [ok |-> FALSE, error |-> m.error, queries |-> m.queries]
             ELSE IF ~rest.ok
             THEN [ok |-> FALSE, error |-> rest.error,
                   queries |-> m.queries \o rest.queries]
             ELSE [ok |-> TRUE,
                   notes |-> <<[model_name |-> model_name, fields |-> m.fields]>>
                             \o rest.notes,
                   queries |-> m.queries \o rest.queries]

\* note_ids of an answered bulk-create call: an id for a note the remote
\* made, None for one it did not.
UploadedIds(n, made) == [k \in 1..n |-> IF made[k] THEN Some(k) ELSE None]

\* upload_cards_to_anki(cards_list, deck_name): the dictionary it returns
\* and the remote calls it issued, in order.
upload_cards_to_anki(cards_list, remote) ==
    LET total == Len(cards_list)
        Failed(message) ==
            [success |-> FALSE, error |-> message, total_cards |-> total]
        converted == ConvertCards(cards_list, remote)
        setup == <<"requestPermission", "createDeck">>
        note_ids == UploadedIds(Len(converted.notes), remote.made)
        successful == Cardinality({k \in 1..Len(note_ids) : note_ids[k] # None})
    IN  IF ~remote.permission_up
        THEN [result |-> Failed("requestPermission failed"),
              calls |-> <<"requestPermission">>]
        ELSE IF ~remote.deck_up
        THEN [result |-> Failed("createDeck failed"), calls |-> setup]
        ELSE IF ~converted.ok
        THEN [result |-> Failed(converted.error),
              calls |-> setup \o converted.queries]
        ELSE IF converted.notes = <<>>
        THEN [result |-> Failed("No valid cards to upload"),
              calls |-> setup \o converted.queries]
        ELSE IF ~remote.add_up
        THEN [result |-> Failed("addNotes failed"),
              calls |-> setup \o converted.queries \o <<"addNotes">>]
        ELSE [result |-> [success |-> TRUE, deck_name |-> "Deck",
                          total_cards |-> total,
                          successful_uploads |-> successful,
                          failed_uploads |-> Len(note_ids) - successful,
                          note_ids |-> note_ids],
              calls |-> setup \o converted.queries \o <<"addNotes">>]

BulkInit ==
    /\ fn = "none"
    /\ fn_out = [ok |-> TRUE, text |-> <<>>]
    /\ fn_in \in [cards_data : SeqsUpTo(UploadCardPool, MaxUploadCards),
                  remote : UploadRemotes]

UploadCards ==
    /\ fn = "none"
    /\ fn' = "upload_cards_to_anki"
    /\ fn_out' = upload_cards_to_anki(fn_in.cards_data, fn_in.remote)
    /\ UNCHANGED <<fn_in, uploadVars, connVars, parseVars>>

BulkNext == UploadCards

----------------------------------------------------------------------------
(* The tools of fastmcp_flashcard_server.py: create_flashcards,            *)
(* upload_to_anki, check_anki_connection, preview_cards,                   *)
(* search_anki_notes, update_anki_note, delete_anki_notes and sync_anki.   *)
(* A body either returns an envelope or is left by an exception; the tool  *)
(* is the body inside its try statement.                                   *)

\* F of the value of x: the statements of a body after an assignment, with
\* the assigned value worked out once.
Apply(F(_), x) == CHOOSE y \in {F(v) : v \in {x}} : TRUE

Envelope(success, data, message, error) ==
    [success |-> success, data |-> data, message |-> message, error |-> error]

Return(envelope) == [ok |-> TRUE, envelope |-> envelope]

\* The answer to a text no card was made from.
NoFlashcards ==
    Envelope(FALSE, None,
             <<"No flashcards could be generated from the provided content">>,
             Some("Invalid content format"))

\* Faulty variant: the body stands alone, an exception leaves the tool.
WithoutExcept(body, message) ==
    IF body.ok THEN [raised |-> FALSE, envelope |-> body.envelope]
    ELSE [raised |-> TRUE, error |-> body.error]

\* "try: <body> except Exception as e: return {...}"
TryExcept(body, message) ==
    [raised |-> FALSE,
     envelope |-> IF body.ok THEN body.envelope
                  ELSE Envelope(FALSE, None, message, Some(body.error))]

create_flashcards(content, kind) ==
    LET parsed == parse_text_to_cards(content, kind)
        body ==
            IF ~parsed.ok THEN Raise(parsed.error)
            ELSE IF parsed.cards = <<>> THEN Return(NoFlashcards)
            ELSE Return(Envelope(TRUE,
                     Some([cards |-> parsed.cards, card_type |-> kind]),
                     <<"Generated ", ToString(Len(parsed.cards)),
                       " flashcard(s)">>,
                     None))
    IN  TryExcept(body, <<"Error generating flashcards">>)

\* "for card in cards: ..." of upload_to_anki -- the texts of a card in the
\* delimiters of the remote.
MathjaxCard(card) ==
    IF Has(card, "front")
    THEN [front |-> convert_to_anki_mathjax(card.front),
          back |-> convert_to_anki_mathjax(card.back)]
    ELSE IF Has(card, "text")
    THEN [text |-> convert_to_anki_mathjax(card.text)]
    ELSE card

upload_to_anki(content, kind, remote) ==
    LET tags == <<"mcp-generated">>
        \* "if result["success"]: ... else: ..."
        Answer(r) ==
            IF r.success
            THEN Return(Envelope(TRUE, Some(r),
                     <<"Successfully uploaded ", ToString(r.successful_uploads),
                       " cards to Anki deck '", r.deck_name, "'">>,
                     None))
            ELSE Return(Envelope(FALSE, Some(r),
                     <<"Failed to upload cards to Anki">>,
                     IF Has(r, "error") THEN Some(r.error) ELSE None))
        Upload(cards_list) ==
            Apply(Answer, upload_cards_to_anki(cards_list, remote).result)
        Convert(parsed) ==
            IF ~parsed.ok THEN Raise(parsed.error)
            ELSE IF parsed.cards = <<>> THEN Return(NoFlashcards)
            ELSE Apply(Upload,
                       [n \in 1..Len(parsed.cards) |->
                           [data |-> MathjaxCard(parsed.cards[n]),
                            card_type |-> kind, tags |-> tags]])
    IN  TryExcept(Apply(Convert, parse_text_to_cards(content, kind)),
                  <<"Error uploading to Anki">>)

\* The remote answers the actions of a list in order; the first one it does
\* not answer raises.
RECURSIVE FirstFailure(_, _)
FirstFailure(actions, up) ==
    IF actions = <<>> THEN None
    ELSE IF ~up[Head(actions)] THEN Some(Head(actions))
    ELSE FirstFailure(Tail(actions), up)

check_anki_connection(remote) ==
    LET failed == FirstFailure(<<"requestPermission", "deckNames", "modelNames">>,
                               remote.up)
        body ==
            IF failed # None THEN Raise(failed[1])
            ELSE Return(Envelope(TRUE,
                     Some([permission |-> "granted", decks |-> remote.decks,
                           models |-> remote.models]),
                     <<"Connected to Anki - ", ToString(Len(remote.decks)),
                       " deck(s), ", ToString(Len(remote.models)),
                       " model(s) available">>,
                     None))
    IN  TryExcept(body, <<"Failed to connect to Anki">>)

preview_cards(content, kind) ==
    LET parsed == parse_text_to_cards(content, kind)
        body ==
            IF ~parsed.ok THEN Raise(parsed.error)
            ELSE IF parsed.cards = <<>> THEN Return(NoFlashcards)
            ELSE Return(Envelope(TRUE,
                     Some([cards |-> parsed.cards, card_type |-> kind,
                           title |-> "Flashcard Preview", tags |-> <<>>]),
                     <<"Generated preview for ", ToString(Len(parsed.cards)),
                       " flashcard(s)">>,
                     None))
    IN  TryExcept(body, <<"Error generating preview">>)

\* note_ids[:limit]
UpTo(note_ids, limit) ==
    IF limit >= 0
    THEN SubSeq(note_ids, 1, IF limit < Len(note_ids) THEN limit ELSE Len(note_ids))
    ELSE SubSeq(note_ids, 1, Len(note_ids) + limit)

search_anki_notes(query, limit, remote) ==
    LET note_ids == remote.found
        limited_note_ids == UpTo(note_ids, limit)
        body ==
            IF ~remote.up["findNotes"] THEN Raise("findNotes")
            ELSE IF note_ids = <<>>
            THEN Return(Envelope(TRUE,
                     Some([notes |-> <<>>, total_found |-> 0, query |-> query]),
                     <<"No notes found for query: ", query>>,
                     None))
            ELSE IF ~remote.up["notesInfo"] THEN Raise("notesInfo")
            ELSE Return(Envelope(TRUE,
                     Some([notes |-> [k \in 1..Len(limited_note_ids) |->
                                         [noteId |-> limited_note_ids[k]]],
                           total_found |-> Len(note_ids),
                           returned |-> Len(limited_note_ids),
                           query |-> query]),
                     <<"Found ", ToString(Len(note_ids)), " notes (showing ",
                       ToString(Len(limited_note_ids)), ")">>,
                     None))
    IN  TryExcept(body, <<"Error searching Anki notes">>)

update_anki_note(note_id, fields, remote) ==
    LET body ==
            IF ~remote.up["updateNoteFields"] THEN Raise("updateNoteFields")
            ELSE Return(Envelope(TRUE,
                     Some([note_id |-> note_id, fields |-> fields,
                           tags |-> None]),
                     <<"Successfully updated note ", ToString(note_id)>>,
                     None))
    IN  TryExcept(body, <<"Error updating note ", ToString(note_id)>>)

delete_anki_notes(note_ids, remote) ==
    LET body ==
            IF ~remote.up["deleteNotes"] THEN Raise("deleteNotes")
            ELSE Return(Envelope(TRUE,
                     Some([deleted_note_ids |-> note_ids,
                           count |-> Len(note_ids)]),
                     <<"Successfully deleted ", ToString(Len(note_ids)),
                       " notes">>,
                     None))
    IN  TryExcept(body, <<"Error deleting notes">>)

sync_anki(remote) ==
    LET body ==
            IF ~remote.up["sync"] THEN Raise("sync")
            ELSE Return(Envelope(TRUE, None,
                     <<"Successfully synchronized Anki collection with AnkiWeb">>,
                     None))
    IN  TryExcept(body, <<"Error syncing Anki">>)

\* Texts handed to the tools: dictated pairs (with mathematics), paragraphs,
\* deletions, a deletion whose text makes the pattern compiler raise, and
\* texts no card is made from.
ToolTexts ==
    {<<>>, <<"x">>, <<"Q", ":", "x", " ", "A", ":", "$", "y", "$">>,
     <<"x", "\n", "y">>, <<"x", "\n", "y", "\n", "\n", "z", "\n", "$", "$", "w", "$", "$">>,
     <<"{", "{", "x", "}", "}">>, <<"{", "{", "\\", "s", "}", "}">>,
     <<"a", " ", "{", "{", "x", "}", "}", "\n", "\n", "{", "{", "$", "y", "$", "}", "}">>}

ToolCardTypes == {"front-back", "cloze", "basic"}

\* Remotes of the tools that issue one call or a fixed list of calls: which
\* actions are answered, and with what.
ToolActions ==
    {"requestPermission", "deckNames", "modelNames", "findNotes", "notesInfo",
     "updateNoteFields", "deleteNotes", "sync"}

ToolRemotes(actions) ==
    {r \in [up : [ToolActions -> BOOLEAN],
            decks : {<<>>, <<"Default">>},
            models : {<<"Basic", "Cloze">>},
            found : {<<>>, <<7>>, <<7, 8, 9>>}] :
        \A a \in ToolActions \ actions : r.up[a]}

Limits == {-1, 0, 1, 20}

NoteIdLists == {<<>>, <<7>>, <<7, 8>>}

ToolInit ==
    /\ fn = "none"
    /\ fn_out = [ok |-> TRUE, text |-> <<>>]
    /\ \/ fn_in \in [tool : {"create_flashcards", "preview_cards"},
                     content : ToolTexts, card_type : ToolCardTypes]
       \/ fn_in \in [tool : {"upload_to_anki"}, content : ToolTexts,
                     card_type : ToolCardTypes, remote : UploadRemotes]
       \/ fn_in \in [tool : {"check_anki_connection"},
                     remote : ToolRemotes({"requestPermission", "deckNames",
                                           "modelNames"})]
       \/ fn_in \in [tool : {"search_anki_notes"}, query : {"deck:Math"},
                     limit : Limits,
                     remote : ToolRemotes({"findNotes", "notesInfo"})]
       \/ fn_in \in [tool : {"update_anki_note"}, note_id : {7},
                     fields : {[Front |-> "Q"]},
                     remote : ToolRemotes({"updateNoteFields"})]
       \/ fn_in \in [tool : {"delete_anki_notes"}, note_ids : NoteIdLists,
                     remote : ToolRemotes({"deleteNotes"})]
       \/ fn_in \in [tool : {"sync_anki"}, remote : ToolRemotes({"sync"})]

ToolCalled(tool, envelope) ==
    /\ fn = "none"
    /\ fn_in.tool = tool
    /\ fn' = tool
    /\ fn_out' = envelope
    /\ UNCHANGED <<fn_in, uploadVars, connVars, parseVars>>

CreateFlashcards ==
    /\ fn_in.tool = "create_flashcards"
    /\ ToolCalled("create_flashcards",
                  create_flashcards(fn_in.content, fn_in.card_type))

UploadToAnki ==
    /\ fn_in.tool = "upload_to_anki"
    /\ ToolCalled("upload_to_anki",
                  upload_to_anki(fn_in.content, fn_in.card_type, fn_in.remote))

CheckAnkiConnection ==
    /\ fn_in.tool = "check_anki_connection"
    /\ ToolCalled("check_anki_connection", check_anki_connection(fn_in.remote))

PreviewCards ==
    /\ fn_in.tool = "preview_cards"
    /\ ToolCalled("preview_cards", preview_cards(fn_in.content, fn_in.card_type))

SearchAnkiNotes ==
    /\ fn_in.tool = "search_anki_notes"
    /\ ToolCalled("search_anki_notes",
                  search_anki_notes(fn_in.query, fn_in.limit, fn_in.remote))

UpdateAnkiNote ==
    /\ fn_in.tool = "update_anki_note"
    /\ ToolCalled("update_anki_note",
                  update_anki_note(fn_in.note_id, fn_in.fields, fn_in.remote))

DeleteAnkiNotes ==
    /\ fn_in.tool = "delete_anki_notes"
    /\ ToolCalled("delete_anki_notes",
                  delete_anki_notes(fn_in.note_ids, fn_in.remote))

SyncAnki ==
    /\ fn_in.tool = "sync_anki"
    /\ ToolCalled("sync_anki", sync_anki(fn_in.remote))

ToolNext ==
    \/ CreateFlashcards
    \/ UploadToAnki
    \/ CheckAnkiConnection
    \/ PreviewCards
    \/ SearchAnkiNotes
    \/ UpdateAnkiNote
    \/ DeleteAnkiNotes
    \/ SyncAnki

----------------------------------------------------------------------------
(* The components at rest, and the specifications.                         *)

UploadIdle ==
    /\ cards_data = <<>>
    /\ check_duplicates = FALSE
    /\ duplicate_policy = "skip"
    /\ batch_size = 1
    /\ models = {}
    /\ queries_up = [names |-> TRUE, fields |-> TRUE]
    /\ pc = "idle"
    /\ i = 0
    /\ j = 0
    /\ anki_notes = <<>>
    /\ conversion_errors = <<>>
    /\ duplicates_info = NoDuplicatesInfo
    /\ total_results = FreshTotals
    /\ result = NoResult
    /\ raised = FALSE
    /\ calls = <<>>

ParseIdle ==
    /\ text = <<>>
    /\ card_type = "front-back"
    /\ qa_pairs = <<>>
    /\ paragraphs = <<>>
    /\ ppc = "ready"
    /\ cards = <<>>

FnIdle ==
    /\ fn = "none"
    /\ fn_in = <<>>
    /\ fn_out = [ok |-> TRUE, text |-> <<>>]

Init == UploadInit /\ ConnInit /\ ParseIdle /\ FnIdle

Next == UploadNext

Spec == Init /\ [][Next]_vars

ConnSpecInit == UploadIdle /\ ConnInit /\ ParseIdle /\ FnIdle

ConnSpec == ConnSpecInit /\ [][ConnNext]_vars

ParseSpecInit == UploadIdle /\ ConnInit /\ ParseInit /\ FnIdle

ParseSpec == ParseSpecInit /\ [][ParseNext]_vars

ClozeSpecInit == UploadIdle /\ ConnInit /\ ParseIdle /\ ClozeInit

ClozeSpec == ClozeSpecInit /\ [][ClozeNext]_vars

MapSpecInit == UploadIdle /\ ConnInit /\ ParseIdle /\ MapInit

MapSpec == MapSpecInit /\ [][MapNext]_vars

CardSpecInit == UploadIdle /\ ConnInit /\ ParseIdle /\ CardInit

CardSpec == CardSpecInit /\ [][CardNext]_vars

LatexSpecInit == UploadIdle /\ ConnInit /\ ParseIdle /\ LatexInit

LatexSpec == LatexSpecInit /\ [][LatexNext]_vars

RequestSpecInit == UploadIdle /\ ConnInit /\ ParseIdle /\ RequestInit

RequestSpec == RequestSpecInit /\ [][RequestNext]_vars

BulkSpecInit == UploadIdle /\ ConnInit /\ ParseIdle /\ BulkInit

BulkSpec == BulkSpecInit /\ [][BulkNext]_vars

ToolSpecInit == UploadIdle /\ ConnInit /\ ParseIdle /\ ToolInit

ToolSpec == ToolSpecInit /\ [][ToolNext]_vars

----------------------------------------------------------------------------
(* Properties of upload_cards_to_anki, checked under Spec.                 *)

Returned == pc = "done"
HasTallies == Has(result, "successful_uploads")

CallsOf(action) == SelectSeq(calls, LAMBDA c : c.action = action)

\* The input indices a call of the given action has carried.
SentIn(action) == UNION {Range(c.sent) : c \in Range(CallsOf(action))}

\* The entries of processing_errors the mapping of a card has made.
ConversionErrors(errors) == SelectSeq(errors, LAMBDA e : Has(e, "card_index"))

\* The notes the bulk-create calls so far did not create: the nulls of an
\* answered call, every note of a call that raised.
BulkFailures ==
    LET adds == CallsOf("addNotes")
    IN  SumSeq([k \in 1..Len(adds) |->
                  IF adds[k].ok THEN CountFalse(adds[k].reply)
                  ELSE Len(adds[k].sent)])

\* The remote created a note for input card n.
Created(n) ==
    \E c \in Range(CallsOf("addNotes")) :
        c.ok /\ \E k \in 1..Len(c.sent) : c.sent[k] = n /\ c.reply[k]

\* The remote reported the note of input card n as not addable.
ReportedDuplicate(n) ==
    \E c \in Range(CallsOf("canAddNotes")) :
        c.ok /\ \E k \in 1..Len(c.sent) : c.sent[k] = n /\ ~c.reply[k]

\* The mapping of input card n (0-based) raises.
MappingFails(n) ==
    LET card_data == cards_data[n + 1]
        ct == IF Has(card_data, "card_type")
              THEN card_data.card_type ELSE "front-back"
        model_name == IF Has(card_data, "model_name")
                      THEN card_data.model_name
                      ELSE get_default_model_for_card_type(ct)
    IN  \/ ~Has(card_data, "content")
        \/ ~convert_to_anki_fields(card_data.content, ct, model_name, models,
                                   RepliesOf(queries_up)).ok

\* The remote answered every duplicate query with "addable" and created
\* every note submitted to it.
RemoteAcceptsAll ==
    \A c \in Range(calls) :
        /\ c.ok
        /\ c.action \in {"canAddNotes", "addNotes"}
              => \A k \in 1..Len(c.reply) : c.reply[k]

PlainCard == [card_type |-> "front-back", content |-> <<"F", "B">>]
MissingModelCard ==
    [card_type |-> "cloze", model_name |-> "Missing", content |-> <<"T">>]

\* Scenario E: two mappable cards and one card whose note type does not
\* exist and has no valid fallback.
ScenarioE ==
    /\ Len(cards_data) = 3
    /\ Cardinality({k \in 1..3 : cards_data[k] = PlainCard}) = 2
    /\ Cardinality({k \in 1..3 : cards_data[k] = MissingModelCard}) = 1
    /\ "Cloze" \notin models
    /\ queries_up = [names |-> TRUE, fields |-> TRUE]
    /\ batch_size >= 1

\* C1: upload_cards_to_anki never raises: from every position it goes on
\* until it returns, and what it returns is a record whose total_cards is the
\* number of input cards, for every card list, batch size and pattern of
\* remote failures.
C1_AlwaysReturnsARecord ==
    /\ ~raised
    /\ Returned => /\ Has(result, "total_cards")
                   /\ result.total_cards = Len(cards_data)
    /\ ~Returned => IF pc = "convert"
                    THEN j <= Len(Batch)  \* ConvertCard or EndConvert is next
                    ELSE ENABLED (CheckPermission \/ CreateDeck \/ BeginBatch
                                  \/ CheckDuplicates \/ AddNotes
                                  \/ SkipUpload \/ ReturnTotals)

C1_Witness ==
    /\ Returned
    /\ HasTallies
    /\ result.total_cards = 3
    /\ result.successful_uploads >= 1
    /\ \E c \in Range(CallsOf("addNotes")) : ~c.ok
    /\ \E c \in Range(CallsOf("canAddNotes")) : ~c.ok
    /\ ConversionErrors(result.processing_errors) # <<>>

\* C2: a card whose mapping fails makes exactly one processing_errors entry
\* and counts once as failed, and every other card of its chunk is still
\* mapped and handed to the remote; in scenario E with an accepting remote
\* the tallies are 3 / 2 / 1 with one error entry.
C2_MappingFailureIsIsolated ==
    (Returned /\ HasTallies /\ batch_size >= 1) =>
        LET errs == ConversionErrors(result.processing_errors)
            handed == SentIn(IF check_duplicates THEN "canAddNotes"
                             ELSE "addNotes")
        IN  /\ \A n \in 0..(Len(cards_data) - 1) :
                  LET mine == SelectSeq(errs, LAMBDA e : e.card_index = n)
                  IN  IF MappingFails(n)
                      THEN Len(mine) = 1 /\ n \notin handed
                      ELSE Len(mine) = 0 /\ n \in handed
            /\ result.failed_uploads = Len(errs) + BulkFailures
            /\ (ScenarioE /\ RemoteAcceptsAll) =>
                  /\ result.total_cards = 3
                  /\ result.successful_uploads = 2
                  /\ result.failed_uploads = 1
                  /\ Len(result.processing_errors) = 1

C2_Witness ==
    /\ Returned
    /\ HasTallies
    /\ ScenarioE
    /\ RemoteAcceptsAll
    /\ batch_size = 2
    /\ cards_data[1] = MissingModelCard
    /\ result.successful_uploads = 2

\* C3: successful_uploads + failed_uploads = total_cards in every result
\* that carries tallies (batch_size >= 1), for every duplicate policy and
\* every pattern of failures.
C3_TalliesAddUp ==
    (Returned /\ HasTallies /\ batch_size >= 1) =>
        result.successful_uploads + result.failed_uploads = result.total_cards

\* C4: with duplicates checked and every can-add query answered, the
\* notes reported as not addable are all counted: in skipped_duplicates
\* under "skip", where none of them is submitted, in added_duplicates under
\* "add_anyway", where all of them are.
C4_DuplicatesAreCounted ==
    (/\ Returned /\ HasTallies /\ batch_size >= 1 /\ check_duplicates
     /\ \A c \in Range(CallsOf("canAddNotes")) : c.ok) =>
        LET reported == {n \in 0..(Len(cards_data) - 1) : ReportedDuplicate(n)}
        IN  /\ duplicate_policy = "skip" =>
                  /\ result.skipped_duplicates = Cardinality(reported)
                  /\ reported \cap SentIn("addNotes") = {}
            /\ duplicate_policy = "add_anyway" =>
                  /\ result.added_duplicates = Cardinality(reported)
                  /\ reported \subseteq SentIn("addNotes")

\* C5: note_ids has one entry per input card, in input order: the remote
\* id of the card's note, or null when no note was created for the card.
C5_NoteIdsArePositional ==
    (Returned /\ HasTallies /\ batch_size >= 1) =>
        /\ Len(result.note_ids) = Len(cards_data)
        /\ \A n \in 0..(Len(cards_data) - 1) :
              result.note_ids[n + 1] =
                  IF Created(n) THEN Some(NoteId(n)) ELSE None

SetupFailed ==
    \E c \in Range(calls) :
        c.action \in {"requestPermission", "createDeck"} /\ ~c.ok

\* C6: when check_permission or create_deck fails the call returns
\* success = false with an error and total_cards and no tallies, and no
\* model query, can-add query or bulk-create call has been issued.
C6_SetupFailureAborts ==
    SetupFailed =>
        /\ Returned
        /\ DOMAIN result = {"success", "error", "total_cards"}
        /\ result.success = FALSE
        /\ result.total_cards = Len(cards_data)
        /\ \A c \in Range(calls) :
              c.action \notin {"modelNames", "modelFieldNames",
                               "canAddNotes", "addNotes"}

C6_Witness ==
    /\ \E c \in Range(calls) : c.action = "createDeck" /\ ~c.ok
    /\ Len(cards_data) = 2
    /\ Returned

\* C7: a failed bulk-create call makes one processing_errors entry for its
\* chunk and counts every note it carried as failed; the ids collected from
\* the other chunks are kept in order, and every later chunk is still
\* processed.
C7_BulkFailureIsRecorded ==
    (pc \in {"batch", "done"} /\ ~SetupFailed /\ batch_size >= 1) =>
        LET adds == CallsOf("addNotes")
            failed == SelectSeq(adds, LAMBDA c : ~c.ok)
            upload_errors == SelectSeq(total_results.processing_errors,
                                       LAMBDA e : e.error = "Upload failed")
            errs == ConversionErrors(total_results.processing_errors)
        IN  /\ Len(upload_errors) = Len(failed)
            /\ \A k \in 1..Len(failed) : upload_errors[k].batch = failed[k].batch
            /\ total_results.failed_uploads = Len(errs) + BulkFailures
            /\ total_results.note_ids =
                  Concat([k \in 1..Len(adds) |->
                            IF adds[k].ok
                            THEN [m \in 1..Len(adds[k].sent) |->
                                    IF adds[k].reply[m]
                                    THEN Some(NoteId(adds[k].sent[m]))
                                    ELSE None]
                            ELSE <<>>])
            /\ Returned =>
                  \A c \in Range(failed) :
                      \A n \in 0..(Len(cards_data) - 1) :
                          BatchNum(n) > c.batch =>
                              \/ \E e \in Range(errs) : e.card_index = n
                              \/ \E d \in Range(calls) :
                                    d.batch = BatchNum(n) /\ n \in Range(d.sent)

C7_Witness ==
    /\ Returned
    /\ Len(CallsOf("addNotes")) = 3
    /\ CallsOf("addNotes")[1].ok
    /\ ~CallsOf("addNotes")[2].ok
    /\ CallsOf("addNotes")[3].ok
    /\ Len(result.note_ids) = 2
    /\ result.failed_uploads = 1

\* The input indices of chunk number b (counted from 1).
ChunkOf(b) ==
    {n \in 0..(Len(cards_data) - 1) :
        (b - 1) * batch_size <= n /\ n < b * batch_size}

Increasing(ns) == \A a, b \in 1..Len(ns) : a < b => ns[a] < ns[b]

\* C24: for batch_size >= 1 the bulk-create calls partition the input:
\* the call of chunk k carries cards of input indices k*batch_size ..
\* (k+1)*batch_size-1 only, at most batch_size of them and in input order,
\* the chunks come in order, and no card is submitted in two calls.
C24_ChunksPartitionTheInput ==
    batch_size >= 1 =>
        LET adds == CallsOf("addNotes")
        IN  \A k \in 1..Len(adds) :
                /\ Len(adds[k].sent) <= batch_size
                /\ Range(adds[k].sent) \subseteq ChunkOf(adds[k].batch)
                /\ Increasing(adds[k].sent)
                /\ \A l \in 1..Len(adds) :
                      k < l =>
                          /\ adds[k].batch < adds[l].batch
                          /\ Range(adds[k].sent) \cap Range(adds[l].sent) = {}

\* Three cards in chunks of two: one call with cards 0 and 1, one with
\* card 2.
C24_Witness ==
    /\ Returned
    /\ batch_size = 2
    /\ Len(cards_data) = 3
    /\ Len(CallsOf("addNotes")) = 2
    /\ CallsOf("addNotes")[1].sent = <<0, 1>>
    /\ CallsOf("addNotes")[2].sent = <<2>>

\* C25: every note submitted to bulk-create names the note type the field
\* mapper resolved: a note type of the remote collection, whose field names
\* are the keys of the note's fields; also when the mapper fell back from a
\* requested note type the collection does not hold.
C25_NotesNameTheResolvedModel ==
    (pc = "upload" /\ queries_up.names /\ queries_up.fields) =>
        \A n \in 1..Len(anki_notes) :
            /\ anki_notes[n].model_name \in models
            /\ DOMAIN anki_notes[n].fields
                  = Range(FieldNamesOf(anki_notes[n].model_name))

\* C26: every result with success = false carries an error entry, so the
\* upload_to_anki handler answers "Failed to upload cards to Anki: <error>"
\* for every upload that did not succeed, also when every card failed
\* mapping or was skipped as a duplicate.
C26_FailureCarriesAnError ==
    (Returned /\ ~raised /\ ~result.success) =>
        /\ Has(result, "error")
        /\ upload_to_anki_response(result)
              = <<"Failed to upload cards to Anki: ", result.error>>

\* The can-add call of the current chunk has just failed.
CanAddJustFailed ==
    /\ pc = "upload"
    /\ calls # <<>>
    /\ calls[Len(calls)].action = "canAddNotes"
    /\ ~calls[Len(calls)].ok

\* The cards of chunk b whose mapping left no error entry.
MappedOf(b) ==
    {n \in ChunkOf(b) :
        \A e \in Range(ConversionErrors(total_results.processing_errors)) :
            e.card_index # n}

\* The error entries of the duplicate check of chunk b.
DuplicateCheckErrors(b) ==
    SelectSeq(total_results.processing_errors,
              LAMBDA e : /\ ~Has(e, "card_index")
                         /\ e.batch = b
                         /\ e.error = "Duplicate check failed")

\* C29: when the can-add call of a chunk fails there is one
\* processing_errors entry for it, all the mapped notes of the chunk go
\* unfiltered to bulk-create, and the chunk adds nothing to
\* skipped_duplicates and added_duplicates.
C29_FailedDuplicateCheckFiltersNothing ==
    /\ [](\A k \in 1..Len(calls) :
            (calls[k].action = "canAddNotes" /\ ~calls[k].ok) =>
                /\ Len(DuplicateCheckErrors(calls[k].batch)) = 1
                /\ Range(calls[k].sent) = MappedOf(calls[k].batch)
                /\ k < Len(calls) =>
                      /\ calls[k + 1].action = "addNotes"
                      /\ calls[k + 1].batch = calls[k].batch
                      /\ calls[k + 1].sent = calls[k].sent)
    /\ [][CanAddJustFailed =>
            /\ Len(calls') = Len(calls) + 1
            /\ total_results'.skipped_duplicates
                  = total_results.skipped_duplicates
            /\ total_results'.added_duplicates
                  = total_results.added_duplicates]_vars

\* The duplicate check of a chunk of two cards failed, both notes were
\* submitted and made, and no duplicate was counted.
C29_Witness ==
    /\ Returned
    /\ Len(calls) = 10
    /\ calls[9].action = "canAddNotes" /\ ~calls[9].ok
    /\ calls[9].sent = <<0, 1>>
    /\ calls[10].action = "addNotes" /\ calls[10].ok
    /\ calls[10].sent = <<0, 1>>
    /\ result.successful_uploads = 2
    /\ result.skipped_duplicates = 0
    /\ Len(result.processing_errors) = 1

\* The place of a remote call within its chunk.
Stage(action) ==
    CASE action \in {"modelNames", "modelFieldNames"} -> 1
      [] action = "canAddNotes" -> 2
      [] action = "addNotes" -> 3
      [] OTHER -> 0

\* C30: check_permission comes before create_deck, both before every model
\* query, can-add call and bulk-create call; within a chunk the model
\* queries come before the can-add call and that before the bulk-create
\* call; all the calls of a chunk come before all the calls of the next.
C30_RemoteCallsComeInOrder ==
    /\ calls # <<>> => calls[1].action = "requestPermission"
    /\ Len(calls) >= 2 => calls[2].action = "createDeck"
    /\ \A k \in 3..Len(calls) : Stage(calls[k].action) > 0 /\ calls[k].batch >= 1
    \* the order is transitive, so it is stated for neighbours
    /\ \A a \in 1..(Len(calls) - 1) :
          LET b == a + 1
          IN  /\ calls[a].batch <= calls[b].batch
              /\ calls[a].batch = calls[b].batch =>
                    /\ Stage(calls[a].action) <= Stage(calls[b].action)
                    /\ Stage(calls[a].action) = Stage(calls[b].action) =>
                          Stage(calls[a].action) < 2

\* Two chunks of one card each: the queries, the can-add call and the
\* bulk-create call of the first chunk, then those of the second.
C30_Witness ==
    /\ Returned
    /\ Len(calls) = 12
    /\ calls[6].action = "canAddNotes" /\ calls[6].batch = 1
    /\ calls[7].action = "addNotes" /\ calls[7].batch = 1
    /\ calls[8].action = "modelNames" /\ calls[8].batch = 2
    /\ calls[11].action = "canAddNotes" /\ calls[11].batch = 2
    /\ calls[12].action = "addNotes" /\ calls[12].batch = 2

----------------------------------------------------------------------------
(* Properties of the connector, checked under ConnSpec.                    *)

\* C8: add_note, add_notes and update_note mark the cards of the notes they
\* wrote with the purple flag: after the primary request they post one
\* notesInfo request for those notes and one setSpecificValueOfCard request
\* for their cards, three requests in all, and the cards then carry flag 7.
C8_WritesSetThePurpleFlag ==
    (conn_op.name \in {"add_note", "add_notes", "update_note"}
     /\ conn_result.ok /\ conn_op.notes # <<>>) =>
        /\ Len(conn_calls) = 3
        /\ conn_calls[1].action \in {"addNote", "addNotes", "updateNoteFields"}
        /\ conn_calls[2] = Request("notesInfo", conn_op.notes)
        /\ conn_calls[3] = Request("setSpecificValueOfCard", conn_op.notes)
        /\ \A n \in Range(conn_op.notes) : conn_flags[n] = 7

----------------------------------------------------------------------------
(* Properties of parse_text_to_cards, checked under ParseSpec.             *)

Parsed == ppc = "done"

Trimmed(t) == t = <<>> \/ (~IsSpace(t[1]) /\ ~IsSpace(t[Len(t)]))

NoLabelText(t) ==
    \A p \in 1..Len(t) : ~LabelAt(t, p, "q") /\ ~LabelAt(t, p, "a")

HasNumberedDeletion(t) ==
    \E p \in 1..Len(t), e \in 1..Len(t) :
        /\ OccursAt(t, <<"{", "{", "c">>, p)
        /\ e > p + 3
        /\ \A d \in (p + 3)..(e - 1) : t[d] \in Range(Digit) \cup {"0"}
        /\ OccursAt(t, <<":", ":">>, e)
        /\ Find(t, <<"}", "}">>, e + 2) # 0

\* C10: every card parse_text_to_cards returns, whatever the text, is a
\* well-formed card: a front-back card has a front that is not empty, a
\* cloze card holds at least one numbered deletion.
C10_CardsAreWellFormed ==
    Parsed =>
        \A n \in 1..Len(cards) :
            IF card_type = "front-back" THEN cards[n].front # <<>>
            ELSE HasNumberedDeletion(cards[n].text)

\* The cards of the paragraphs of two lines and more: the first line is the
\* front, the lines after it are the back.
RECURSIVE ParagraphCards(_)
ParagraphCards(ps) ==
    IF ps = <<>> THEN <<>>
    ELSE (IF Len(Head(ps)) >= 2
          THEN <<[front |-> preserve_claude_latex(strip(Head(ps)[1])),
                  back |-> preserve_claude_latex(
                               strip(JoinLines(Tail(Head(ps)))))]>>
          ELSE <<>>)
         \o ParagraphCards(Tail(ps))

\* C23: parse_text_to_cards(text, "front-back") falls back on the
\* paragraphs only when the search for Q: and A: finds no match in the whole
\* text; it then gives exactly one card for every paragraph (section between
\* runs of blank lines or "---") of two lines and more, the first line as
\* front and the other lines as back, and no card for a shorter one.
C23_FallbackOnParagraphs ==
    (Parsed /\ paragraphs # <<>>) =>
        LET found == qa_matches(strip(text), 1)
        IN  IF found # <<>>
            THEN cards = [n \in 1..Len(found) |-> QACard(found[n])]
            ELSE cards = ParagraphCards(paragraphs)

\* A paragraph of one line and one of three lines gave the one card of the
\* second paragraph.
C23_Witness ==
    /\ Parsed
    /\ Len(paragraphs) = 2
    /\ Len(paragraphs[1]) = 1
    /\ Len(paragraphs[2]) = 3
    /\ \E p \in 1..Len(text) : OccursAt(text, <<"-", "-", "-">>, p)
    /\ cards = <<[front |-> <<"x">>, back |-> <<"y", " ", "\n", "z">>]>>

\* The text is one $...$ span on one line.
InlineSpan(t) ==
    /\ Len(t) >= 3
    /\ t[1] = "$" /\ t[Len(t)] = "$"
    /\ \A p \in 2..(Len(t) - 1) : t[p] \notin {"$", "\n"}

\* C19: parse_text_to_cards(text, "front-back") returns the math of the
\* answers in display form: an answer that is a span $...$ comes back as
\* \[...\] with the same content.
C19_AnswersAreInDisplayForm ==
    (Parsed /\ qa_pairs # <<>> /\ Len(cards) = Len(qa_pairs)) =>
        \A n \in 1..Len(cards) :
            InlineSpan(qa_pairs[n].back) =>
                cards[n].back =
                    Open \o Slice(qa_pairs[n].back, 2, Len(qa_pairs[n].back))
                         \o Close

----------------------------------------------------------------------------
(* Properties of create_anki_cloze_card, checked under ClozeSpec.          *)

Compiled == fn = "create_anki_cloze_card"

\* The first marker-delimited span of t at or after position pos: where it
\* opens and where its closing marker stands; opens = 0 when there is none.
SpanFrom(t, pos) ==
    LET Closes(s, e) == /\ OccursAt(t, <<"}", "}">>, e)
                        /\ \A q \in (s + 2)..(e - 1) : t[q] # "\n"
        S == {q \in pos..Len(t) : /\ OccursAt(t, <<"{", "{">>, q)
                                  /\ \E e \in (q + 2)..Len(t) : Closes(q, e)}
    IN  IF S = {} THEN [opens |-> 0, closes |-> 0]
        ELSE [opens |-> Min(S),
              closes |-> Min({e \in (Min(S) + 2)..Len(t) : Closes(Min(S), e)})]

NumberedToken(k, payload) ==
    <<"{", "{", "c">> \o Decimal(k) \o <<":", ":">> \o payload \o <<"}", "}">>

\* t from position pos on with its spans numbered k, k+1, ... from the left,
\* everything else as it is.
RECURSIVE NumberedFromLeft(_, _, _)
NumberedFromLeft(t, pos, k) ==
    LET span == SpanFrom(t, pos)
    IN  IF span.opens = 0 THEN SubSeq(t, pos, Len(t))
        ELSE Slice(t, pos, span.opens)
             \o NumberedToken(k, Slice(t, span.opens + 2, span.closes))
             \o NumberedFromLeft(t, span.closes + 2, k + 1)

\* C11: on a text with N >= 1 spans create_anki_cloze_card returns the text
\* with the k-th span from the left turned into {{ck::payload_k}}, k = 1..N,
\* and nothing else changed; on a text without a span it raises ValueError.
C11_SpansNumberedFromLeft ==
    Compiled =>
        IF SpanFrom(fn_in, 1).opens = 0
        THEN fn_out = [ok |-> FALSE, error |-> "ValueError"]
        ELSE /\ fn_out.ok
             /\ fn_out.text = NumberedFromLeft(fn_in, 1, 1)

\* A payload of the form cN::...
IsCompiledPayload(payload) ==
    \E e \in 3..(Len(payload) - 1) :
        /\ payload[1] = "c"
        /\ \A d \in 2..(e - 1) : payload[d] \in Range(Digit) \cup {"0"}
        /\ payload[e] = ":" /\ payload[e + 1] = ":"

HasCompiledSpan(t) ==
    \E p \in 1..Len(t) :
        /\ SpanFrom(t, p).opens = p
        /\ IsCompiledPayload(Slice(t, p + 2, SpanFrom(t, p).closes))

\* t from position pos on with its compiled spans as they are and the other
\* spans numbered from k on; a compiled span uses up a number when
\* byPosition holds.
RECURSIVE NumberedKeepingCompiled(_, _, _, _)
NumberedKeepingCompiled(t, pos, k, byPosition) ==
    LET span == SpanFrom(t, pos)
        payload == Slice(t, span.opens + 2, span.closes)
    IN  IF span.opens = 0 THEN SubSeq(t, pos, Len(t))
        ELSE IF IsCompiledPayload(payload)
        THEN Slice(t, pos, span.closes + 2)
             \o NumberedKeepingCompiled(t, span.closes + 2,
                                        IF byPosition THEN k + 1 ELSE k,
                                        byPosition)
        ELSE Slice(t, pos, span.opens) \o NumberedToken(k, payload)
             \o NumberedKeepingCompiled(t, span.closes + 2, k + 1, byPosition)

\* C12: create_anki_cloze_card leaves the spans that are already of the form
\* {{cN::payload}} as they are and numbers the other spans only.
C12_CompiledSpansAreKept ==
    (Compiled /\ fn_out.ok /\ HasCompiledSpan(fn_in)) =>
        \/ fn_out.text = NumberedKeepingCompiled(fn_in, 1, 1, TRUE)
        \/ fn_out.text = NumberedKeepingCompiled(fn_in, 1, 1, FALSE)

----------------------------------------------------------------------------
(* Properties of the fastmcp field mapper, checked under MapSpec.          *)

Mapped == fn = "convert_to_anki_fields"

\* The field list of the note type was read from the remote.
FieldListRead == fn_in.remote.fields_up

Distinct(names) ==
    \A a, b \in 1..Len(names) : a # b => names[a] # names[b]

FrontBackInput ==
    /\ fn_in.card_type = "front-back"
    /\ Has(fn_in.card_data, "front")
    /\ Has(fn_in.card_data, "back")

\* C13: a front-back card mapped onto a note type with two or more distinct
\* field names gives exactly those names as keys: the first holds the front,
\* the second the back, every further one the empty text.
C13_ExactlyTheModelsFields ==
    (Mapped /\ fn_out.ok /\ FrontBackInput /\ FieldListRead
     /\ Len(fn_in.remote.field_names) >= 2
     /\ Distinct(fn_in.remote.field_names)) =>
        LET names == fn_in.remote.field_names
        IN  /\ DOMAIN fn_out.fields = Range(names)
            /\ fn_out.fields[names[1]] = fn_in.card_data.front
            /\ fn_out.fields[names[2]] = fn_in.card_data.back
            /\ \A k \in 3..Len(names) : fn_out.fields[names[k]] = ""

\* A card with front Q and back A was mapped onto the three fields of a
\* note type found through the fallback.
C13_Witness ==
    /\ Mapped /\ fn_out.ok /\ FrontBackInput /\ FieldListRead
    /\ fn_in.model_name = Some("Custom")
    /\ "Custom" \notin fn_in.remote.models
    /\ fn_in.remote.field_names = <<"Front", "Back", "Extra">>
    /\ fn_out.fields = [f \in {"Front", "Back", "Extra"} |->
                           CASE f = "Front" -> "Q" [] f = "Back" -> "A"
                             [] OTHER -> ""]

\* C14: a front-back card mapped onto a note type with exactly one field
\* name succeeds and gives that one field, holding the front.
C14_OneFieldHoldsTheFront ==
    (Mapped /\ fn_in.card_type = "front-back" /\ Has(fn_in.card_data, "front")
     /\ FieldListRead /\ Len(fn_in.remote.field_names) = 1
     /\ Len(fn_out.queries) > 0 /\ fn_out.queries[Len(fn_out.queries)] = "modelFieldNames") =>
        /\ fn_out.ok
        /\ fn_out.fields =
              [f \in {fn_in.remote.field_names[1]} |-> fn_in.card_data.front]

\* The note type asked for: the one named, or the default of the card kind.
RequestedModel ==
    IF fn_in.model_name = None
    THEN get_default_model_for_card_type(fn_in.card_type)
    ELSE fn_in.model_name[1]

\* C22: when the model list can be read, convert_to_anki_fields settles on
\* the requested note type (the default of the card kind, Basic or Cloze,
\* when none is requested) if the list holds it; otherwise on the default of
\* the kind if that differs from the requested one and the list holds it;
\* otherwise it fails with the "no valid fallback" error before any
\* field-name query.
C22_ModelResolution ==
    (Mapped /\ fn_in.remote.names_up) =>
        LET default == get_default_model_for_card_type(fn_in.card_type)
        IN  IF RequestedModel \in fn_in.remote.models
            THEN Has(fn_out, "model") /\ fn_out.model = RequestedModel
            ELSE IF default # RequestedModel /\ default \in fn_in.remote.models
            THEN Has(fn_out, "model") /\ fn_out.model = default
            ELSE /\ ~fn_out.ok
                 /\ fn_out.error = "no valid fallback"
                 /\ "modelFieldNames" \notin Range(fn_out.queries)

\* A cloze card asked for the note type Custom, which the collection does
\* not hold, and was mapped onto Cloze after two looks at the model list.
C22_Witness ==
    /\ Mapped /\ fn_in.remote.names_up
    /\ fn_in.card_type = "cloze"
    /\ fn_in.model_name = Some("Custom")
    /\ fn_in.remote.models = {"Basic", "Cloze"}
    /\ fn_out.ok
    /\ fn_out.model = "Cloze"
    /\ fn_out.queries = <<"modelNames", "modelNames", "modelFieldNames">>

----------------------------------------------------------------------------
(* Properties of the generated front-back card, checked under CardSpec.    *)

\* C15: a front-back card written by create_front_back_card from front F
\* and back B and mapped onto a note type with two fields has the text of F
\* (as given or escaped) in the first field and the text of B in the second.
C15_FrontAndBackComeBack ==
    fn = "_parse_front_back_card" =>
        /\ fn_out.ok
        /\ fn_out.fields[fn_in.field_names[1]]
              \in {fn_in.front, escape_latex(fn_in.front)}
        /\ fn_out.fields[fn_in.field_names[2]]
              \in {fn_in.back, escape_latex(fn_in.back)}

----------------------------------------------------------------------------
(* Properties of the LaTeX conversions, checked under LatexSpec.           *)

AsDisplay ==
    [k \in Kinds |-> IF k \in {"inline", "dollars", "paren"} THEN "bracket" ELSE k]

AsMathjax ==
    [k \in Kinds |-> CASE k = "inline" -> "paren" [] k = "dollars" -> "bracket"
                       [] OTHER -> k]

KindsOf(segments) == {segments[n].kind : n \in 1..Len(segments)}

HoldsPlaceholder(segments) ==
    \E n \in 1..Len(segments), p \in 0..1 :
        Find(segments[n].content, Placeholder(p), 1) # 0

\* C16: convert_latex_to_display_format turns every $...$, $$...$$ and
\* \(...\) span outside a \[...\] span into \[...\] with the same content,
\* whatever the content, and reads no $$...$$ pair as single-dollar spans;
\* the rest of the text stays.
C16_EverySpanBecomesDisplay ==
    (fn = "convert_latex_to_display_format" /\ ~HoldsPlaceholder(fn_in.segments)) =>
        fn_out.text = Written(fn_in.segments, AsDisplay)

\* C17: convert_latex_to_display_format returns a text whose math is all
\* in \[...\] form as it is, whatever the spans hold and however many
\* there are.
C17_DisplayFormIsKept ==
    (fn = "convert_latex_to_display_format"
     /\ KindsOf(fn_in.segments) \subseteq {"plain", "bracket"}) =>
        fn_out.text = fn_in.text

\* C18: for a text whose dollar signs all delimit $...$ or $$...$$ spans,
\* convert_to_anki_mathjax returns a text without dollar sign: every
\* $$...$$ span has become \[...\], every $...$ span \(...\).
C18_NoDollarIsLeft ==
    (fn = "convert_to_anki_mathjax"
     /\ KindsOf(fn_in.segments) \subseteq {"plain", "inline", "dollars"}) =>
        /\ "$" \notin Range(fn_out.text)
        /\ fn_out.text = Written(fn_in.segments, AsMathjax)

----------------------------------------------------------------------------
(* Properties of _make_request, checked under RequestSpec.                 *)

Requested == fn = "_make_request"

\* The endpoint answered with an error that is not empty.
AnsweredWithError == fn_in.transport = "error" /\ fn_in.error # <<>>

\* The endpoint could not be reached, or the request timed out.
Unreachable == fn_in.transport \in {"refused", "timeout"}

\* The message starts with "Failed to connect to Anki".
ConnectionForm(message) == OccursAt(message, FailedToConnect, 1)

\* The message holds "AnkiConnect error: " followed by the error text of
\* the answer.
RemoteErrorForm(message) ==
    Find(message, AnkiConnectError \o fn_in.error, 1) # 0

\* C20: _make_request fails with a message starting "Failed to connect to
\* Anki" exactly when the endpoint is unreachable or the request timed
\* out, and with a message holding "AnkiConnect error: " followed by the
\* error text of the answer exactly when the endpoint answered with an
\* error that is not empty; no message has both forms; an answer without
\* error returns its result.
C20_FailureFormsTellTheCause ==
    Requested =>
        /\ (~fn_out.ok /\ ConnectionForm(fn_out.message)) <=> Unreachable
        /\ (~fn_out.ok /\ RemoteErrorForm(fn_out.message)) <=> AnsweredWithError
        /\ ~fn_out.ok =>
              ~(ConnectionForm(fn_out.message) /\ RemoteErrorForm(fn_out.message))
        /\ (fn_in.transport \in {"result", "error"} /\ fn_in.error = <<>>) =>
              (fn_out.ok /\ fn_out.value = fn_in.result)

\* The endpoint answered with the error text "Failed to connect to Anki":
\* the message holds it after "AnkiConnect error: " and starts otherwise.
C20_Witness ==
    /\ Requested
    /\ fn_in.transport = "error"
    /\ fn_in.error = <<"Failed to connect to Anki">>
    /\ ~fn_out.ok
    /\ fn_out.message =
          <<"Request failed: ", "AnkiConnect error: ", "Failed to connect to Anki">>

----------------------------------------------------------------------------
(* Properties of upload_cards_to_anki of fastmcp_flashcard_server.py,      *)
(* checked under BulkSpec.                                                 *)

Uploaded == fn = "upload_cards_to_anki"

\* C27: upload_cards_to_anki returns success = true only if a note was
\* created: success = true implies successful_uploads >= 1, whatever ids
\* and nulls the bulk-create call answers with.
C27_SuccessMeansANoteWasMade ==
    (Uploaded /\ fn_out.result.success) =>
        fn_out.result.successful_uploads >= 1

\* The mapping of some card of the list fails (the remote answers the
\* setup calls).
SomeMappingFails ==
    /\ fn_in.remote.permission_up /\ fn_in.remote.deck_up
    /\ \E n \in 1..Len(fn_in.cards_data) :
          LET c == fn_in.cards_data[n]
              kind == IF Has(c, "card_type") THEN c.card_type ELSE "front-back"
              model_name == IF Has(c, "model_name") THEN c.model_name
                            ELSE get_default_model_for_card_type(kind)
          IN  \/ ~Has(c, "data")
              \/ ~MapToFields(c.data, kind, Some(model_name), fn_in.remote).ok

\* C28: upload_cards_to_anki is all-or-nothing on mapping: when the mapping
\* of any one card fails no addNotes call is issued for any card, and the
\* result is success = false with the error text and total_cards, although
\* createDeck has been executed.
C28_OneMappingFailureStopsAll ==
    (Uploaded /\ SomeMappingFails) =>
        /\ "addNotes" \notin Range(fn_out.calls)
        /\ "createDeck" \in Range(fn_out.calls)
        /\ DOMAIN fn_out.result = {"success", "error", "total_cards"}
        /\ ~fn_out.result.success
        /\ fn_out.result.total_cards = Len(fn_in.cards_data)
        /\ fn_out.result.error \in {"'data'", "no valid fallback", "IndexError"}

\* The first card was mapped, the second has no data: the deck was made,
\* the model was looked up for the first card, and nothing was uploaded.
C28_Witness ==
    /\ Uploaded
    /\ Len(fn_in.cards_data) = 2
    /\ Has(fn_in.cards_data[1], "data") /\ ~Has(fn_in.cards_data[2], "data")
    /\ fn_out.calls = <<"requestPermission", "createDeck", "modelNames",
                        "modelFieldNames">>
    /\ fn_out.result = [success |-> FALSE, error |-> "'data'", total_cards |-> 2]

----------------------------------------------------------------------------
(* Properties of the tools of fastmcp_flashcard_server.py, checked under   *)
(* ToolSpec.                                                               *)

ToolAnswered == fn # "none"

\* The tool works on a text, and the text yields no card.
YieldsNoCard ==
    /\ fn_in.tool \in {"create_flashcards", "preview_cards", "upload_to_anki"}
    /\ LET parsed == parse_text_to_cards(fn_in.content, fn_in.card_type)
       IN  parsed.ok /\ parsed.cards = <<>>

\* C21: every tool of fastmcp_flashcard_server.py returns, for every input
\* and every remote failure, a record with the four keys success, data,
\* message and error and never raises; error is null exactly when success
\* is true, and a text that yields no card gives success = false.
C21_ToolsAnswerWithAnEnvelope ==
    ToolAnswered =>
        /\ ~fn_out.raised
        /\ DOMAIN fn_out.envelope = {"success", "data", "message", "error"}
        /\ fn_out.envelope.success \in BOOLEAN
        /\ (fn_out.envelope.error = None) <=> fn_out.envelope.success
        /\ YieldsNoCard => ~fn_out.envelope.success

\* upload_to_anki on a text whose deletion makes the pattern compiler
\* raise: the exception is answered from the except clause of the tool.
C21_Witness ==
    /\ fn = "upload_to_anki"
    /\ fn_in.card_type = "cloze"
    /\ ~parse_text_to_cards(fn_in.content, fn_in.card_type).ok
    /\ fn_out = [raised |-> FALSE,
                 envelope |-> Envelope(FALSE, None, <<"Error uploading to Anki">>,
                                       Some("re.error"))]

============================================================================
